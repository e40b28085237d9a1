------------------------- MODULE SessionGraphProofs -------------------------
(***************************************************************************)
(* What is proved of SessionGraph, for every set of sessions, tasks and    *)
(* capabilities, every delegation depth and every number of requests.      *)
(*                                                                         *)
(* The inductive invariant has four layers.  Stored relates the copies of  *)
(* a session to each other (memory, store, the write under way, what was   *)
(* told); Firm says that every copy, the snapshots of calls included, has  *)
(* the revocations that met nothing when they were reported done; Lineage  *)
(* says that nothing holds a capability that was not made, and that what   *)
(* was made narrows; Accounts counts the calls that were charged, the ones *)
(* that still owe and the charges that were lost.                          *)
(***************************************************************************)
EXTENDS SessionGraph, FiniteSetTheorems, TLAPS

-----------------------------------------------------------------------------
\* The invariant.

\* A session that is in memory is in the store and was told of; a write changes a session
\* that is in memory, or makes one.
Present ==
  /\ \A s \in Sessions :
       /\ memory[s] = None <=> told[s] = None
       /\ memory[s] # None => disk[s] # None
       /\ memory[s] = None => s \notin overlapped
  /\ \A t \in Writes : write[t].change.op # "create" => memory[write[t].session] # None
  /\ \A t \in Tasks : call[t] # None => memory[call[t].session] # None

\* A session without overlapping writes: at most one is under way, and it started from
\* what is in memory.
Lone(s) ==
  /\ memory[s] = told[s]
  /\ WritesOn(s) = {} => disk[s] = memory[s]
  /\ \A t, u \in WritesOn(s) : t = u
  /\ \A t \in WritesOn(s) :
       /\ write[t].copy = Apply(write[t].change, memory[s])
       /\ disk[s] = IF write[t].saved THEN write[t].copy ELSE memory[s]

Stored == TypeOK /\ Present /\ \A s \in Sessions \ overlapped : Lone(s)

Narrows(c, d) ==
  /\ c.kind = d.kind
  /\ d.limit # None => c.limit # None /\ c.limit <= d.limit
  /\ d.revokedBy \subseteq c.revokedBy
  /\ c.depth = d.depth + 1 /\ c.depth <= MaxDepth

MintedIds == {c.id : c \in minted}

Lineage ==
  /\ Everywhere \subseteq minted
  /\ \A t \in Tasks : call[t] # None => call[t].snapshot.caps \subseteq minted
  /\ \A c, d \in minted : c.id = d.id => c = d
  /\ \A c, d \in minted : c.parent = d.id => Narrows(c, d)
  /\ \A c \in minted : c.parent # None => c.parent \in MintedIds

\* The calls of session s on the authority of capability i whose handler has not run.
Decided(s, i) ==
  {t \in Tasks : /\ call[t] # None /\ call[t].session = s /\ call[t].step \in {"kind", "charge"}
                 /\ \E k \in Chain(call[t].snapshot.caps, call[t].cap) : k.id = i}

Charging(t, i) == write[t] # None /\ write[t].change = Change("use", i)

\* Those that are not charged yet, and those that are.
Owing(s, i) == {t \in Decided(s, i) : (\E k \in call[t].todo : k.id = i) \/ Charging(t, i)}
Paid(s, i) == Decided(s, i) \ Owing(s, i)

\* What a call still has to charge is part of what it uses; a use is written by the call
\* that owes it, and a new session has none.
Charges ==
  /\ \A t \in Tasks : call[t] # None =>
       /\ call[t].cap \in call[t].snapshot.caps
       /\ call[t].todo \subseteq Chain(call[t].snapshot.caps, call[t].cap)
       /\ call[t].step = "kind" =>
            \A k \in Chain(call[t].snapshot.caps, call[t].cap) : k.limit # None => k \in call[t].todo
  /\ \A t \in Writes : write[t].change.op = "create" =>
       memory[write[t].session] = None /\ write[t].copy.uses = [i \in Ids |-> 0]
  /\ \A t \in Writes : write[t].change.op = "use" =>
       /\ call[t] # None /\ call[t].session = write[t].session /\ call[t].step = "charge"
       /\ \E k \in Chain(call[t].snapshot.caps, call[t].cap) : k.id = write[t].change.arg
       /\ \A k \in call[t].todo : k.id # write[t].change.arg

\* A capability was charged for every call that ran or may run on it, but for the charges
\* that were lost; whatever is not charged yet, one task has at most one such call.
Account(s, c) ==
  c.limit # None =>
    /\ ran[s][c.id] + Cardinality(Paid(s, c.id)) <= Uses(memory[s], c.id) + lost[s][c.id]
    /\ ran[s][c.id] + Cardinality(Paid(s, c.id)) + Cardinality(Owing(s, c.id))
         < c.limit + Cardinality(Tasks) + lost[s][c.id]

Unused == \A s \in Sessions, i \in Ids : i \notin MintedIds => ran[s][i] = 0

Accounts == Unused /\ \A s \in Sessions, c \in minted : Account(s, c)

\* A charge is lost only where writes overlap.
Lossless == \A s \in Sessions \ overlapped, i \in Ids : lost[s][i] = 0

RevokedOf(r) == IF r = None THEN {} ELSE r.revoked

\* Every copy of a session has its firm revocations: what a write of an older copy could
\* undo is not firm.
Firm ==
  /\ \A s \in Sessions : firm[s] \subseteq RevokedOf(memory[s]) /\ firm[s] \subseteq RevokedOf(disk[s])
  /\ \A t \in Tasks : write[t] # None =>
       /\ firm[write[t].session] \subseteq write[t].copy.revoked
       /\ write[t].change.op \in {"revoke", "tear"} => write[t].change.arg \in write[t].copy.revoked
  /\ \A t \in Tasks : call[t] # None => firm[call[t].session] \subseteq call[t].snapshot.revoked

-----------------------------------------------------------------------------
\* What a change makes of a session.

ChangeFacts(ch, r, new) ==
  /\ new \in Record
  /\ ch.op = "create" => new = ch.arg
  /\ ch.op = "grant" => new.caps = r.caps \cup {ch.arg}
  /\ ch.op \notin {"create", "grant"} => new.caps \subseteq r.caps
  /\ ch.op = "use" => new.uses = [r.uses EXCEPT ![ch.arg] = @ + 1]
  /\ ch.op \notin {"create", "use"} => new.uses = r.uses
  /\ ch.op # "create" => r.revoked \subseteq new.revoked
  /\ ch.op \in {"revoke", "tear"} => ch.arg \in new.revoked

\* A change of a session is a session; only a grant adds a capability, only a use
\* charges one, and nothing takes a revocation back.
LEMMA ApplyFacts ==
  ASSUME NEW ch \in Changes, NEW r, r \in Record \/ ch.op = "create"
  PROVE  ChangeFacts(ch, r, Apply(ch, r))
<1>1. CASE ch \in [op : {"create"}, arg : Record]
  <2>1. Apply(ch, r) = ch.arg
    BY <1>1 DEF Apply
  <2>. QED  BY <1>1, <2>1 DEF ChangeFacts
<1>2. CASE ch \in [op : {"grant"}, arg : Capability]
  <2>1. Apply(ch, r) = [r EXCEPT !.caps = @ \cup {ch.arg}]
    BY <1>2 DEF Apply
  <2>. QED  BY <1>2, <2>1 DEF ChangeFacts, Record
<1>3. CASE ch \in [op : {"revoke", "tear", "use"}, arg : Ids]
  <2>1. CASE ch.op = "revoke"
    <3>1. Apply(ch, r) = [r EXCEPT !.revoked = @ \cup {ch.arg}]
      BY <2>1 DEF Apply
    <3>. QED  BY <1>3, <2>1, <3>1 DEF ChangeFacts, Record
  <2>2. CASE ch.op = "tear"
    <3>1. Apply(ch, r) = [r EXCEPT !.revoked = @ \cup {ch.arg},
                                   !.caps = @ \ Descendants(@, ch.arg)]
      BY <2>2 DEF Apply
    <3>. DEFINE less == r.caps \ Descendants(r.caps, ch.arg)
                new == [r EXCEPT !.revoked = @ \cup {ch.arg}, !.caps = less]
    <3>2. less \subseteq r.caps
      OBVIOUS
    <3>3. r \in Record /\ ch.arg \in Ids
      BY <1>3, <2>2
    <3>. HIDE DEF less
    <3>4. new \in Record /\ new.caps = less /\ new.uses = r.uses /\ new.revoked = r.revoked \cup {ch.arg}
      BY <3>2, <3>3 DEF Record
    <3>5. Apply(ch, r) = new
      BY <3>1 DEF less
    <3>. QED  BY <2>2, <3>2, <3>4, <3>5 DEF ChangeFacts
  <2>3. CASE ch.op = "use"
    <3>1. Apply(ch, r) = [r EXCEPT !.uses[ch.arg] = @ + 1]
      BY <2>3 DEF Apply
    <3>. QED  BY <1>3, <2>3, <3>1 DEF ChangeFacts, Record
  <2>. QED  BY <1>3, <2>1, <2>2, <2>3
<1>4. CASE ch \in [op : {"kind"}, arg : Kinds]
  <2>1. Apply(ch, r) = [r EXCEPT !.used = @ \cup {ch.arg}]
    BY <1>4 DEF Apply
  <2>. QED  BY <1>4, <2>1 DEF ChangeFacts, Record
<1>5. CASE ch \in [op : {"tags"}, arg : SUBSET Labels]
  <2>1. Apply(ch, r) = [r EXCEPT !.labels = @ \cup ch.arg]
    BY <1>5 DEF Apply
  <2>. QED  BY <1>5, <2>1 DEF ChangeFacts, Record
<1>6. CASE ch \in [op : {"status"}, arg : Statuses]
  <2>1. Apply(ch, r) = [r EXCEPT !.status = ch.arg]
    BY <1>6 DEF Apply
  <2>. QED  BY <1>6, <2>1 DEF ChangeFacts, Record
<1>7. CASE ch \in [op : {"note"}, arg : Notes]
  <2>1. Apply(ch, r) = [r EXCEPT !.notes = @ \cup {ch.arg}]
    BY <1>7 DEF Apply
  <2>. QED  BY <1>7, <2>1 DEF ChangeFacts, Record
<1>. QED  BY <1>1, <1>2, <1>3, <1>4, <1>5, <1>6, <1>7 DEF Changes

\* The capabilities above one are its parents' parents: a set of them that has c and the
\* parents of its members has the whole chain.
LEMMA ChainInduction ==
  ASSUME NEW caps, NEW c, NEW set \in SUBSET caps, c \in set, HasParents(set, caps)
  PROVE  Chain(caps, c) \subseteq set
BY DEF Chain

LEMMA ChainFacts ==
  ASSUME NEW caps, NEW c \in caps
  PROVE  /\ Chain(caps, c) \subseteq caps
         /\ c \in Chain(caps, c)
         /\ HasParents(Chain(caps, c), caps)
BY DEF Chain, HasParents

-----------------------------------------------------------------------------
\* What a step does to the writes and to the calls.

\* A method or a call starts to write.
Began(t, s, base, ch) ==
  /\ s \in Sessions /\ base \in Record /\ ch \in Changes /\ ch.op # "create"
  /\ write[t] = None /\ memory[s] # None
  /\ Begin(t, s, base, ch)
  /\ UNCHANGED <<memory, disk, told>>
  /\ base = memory[s] \/ (call[t] # None /\ call[t].session = s /\ base = call[t].snapshot)
  /\ ch.op = "grant" => ch.arg \in minted'

\* A session is being made.
Created(t, s, r) ==
  /\ s \in Sessions /\ r \in Record
  /\ write[t] = None
  /\ Create(t, s, r)
  /\ UNCHANGED <<memory, disk, told>>
  /\ r.uses = [i \in Ids |-> 0]
  /\ r.caps = {} \/ \E p \in Sessions : memory[p] # None /\ r.caps = memory[p].caps

Quiet == UNCHANGED <<memory, disk, write, told, overlapped>>

Writing(t) ==
  \/ \E s, base, ch : Began(t, s, base, ch)
  \/ \E s, r : Created(t, s, r)

LEMMA NewSessionType ==
  ASSUME NEW caps \in SUBSET Capability, NEW labels \in SUBSET Labels, NEW notes \in SUBSET Notes,
         NEW parent \in Sessions \cup {None}
  PROVE  /\ NewSession(caps, labels, notes, parent) \in Record
         /\ NewSession(caps, labels, notes, parent).caps = caps
         /\ NewSession(caps, labels, notes, parent).uses = [i \in Ids |-> 0]
BY DEF NewSession, Record, Statuses

LEMMA MutateBegins ==
  ASSUME TypeOK, NEW t \in Tasks, NEW s \in Sessions, NEW ch \in Changes, ch.op # "create",
         write[t] = None, Mutate(t, s, ch), UNCHANGED <<memory, disk, told>>,
         ch.op = "grant" => ch.arg \in minted'
  PROVE  Writing(t)
<1>1. memory[s] \in Record
  BY DEF Mutate, TypeOK
<1>2. Began(t, s, memory[s], ch)
  BY <1>1 DEF Mutate, Began
<1>. QED  BY <1>2 DEF Writing

\* The requests of the methods of the graph.
LEMMA RequestsWrite ==
  ASSUME TypeOK, NEW t \in Tasks,
         \/ New(t) \/ Fork(t) \/ GrantCapability(t) \/ RevokeCapability(t) \/ Delegate(t)
         \/ AddTags(t) \/ AddNote(t) \/ Transition(t)
  PROVE  /\ Writing(t) /\ UNCHANGED <<call, ran, history>>
         /\ ops' \in 0 .. MaxOps /\ minted' \subseteq Capability
<1>1. write[t] = None /\ UNCHANGED <<memory, disk, told>> /\ UNCHANGED <<call, ran, history>>
      /\ ops' \in 0 .. MaxOps
  BY GraphAssumption DEF TypeOK, Request, Idle, New, Fork, GrantCapability, RevokeCapability, Delegate,
     AddTags, AddNote, Transition
<1>2. CASE New(t)
  <2>1. PICK s \in Sessions, p \in Sessions \cup {None} : Create(t, s, NewSession({}, {}, {}, p))
    BY <1>2 DEF New
  <2>2. Created(t, s, NewSession({}, {}, {}, p))
    BY <1>1, <2>1, NewSessionType DEF Created
  <2>. QED  BY <1>1, <1>2, <2>2 DEF Writing, New, TypeOK
<1>3. CASE Fork(t)
  <2>1. PICK s \in Sessions, p \in Sessions : memory[p] # None /\ Create(t, s, ForkOf(memory[p], p))
    BY <1>3 DEF Fork
  <2>2. memory[p] \in Record
    BY <2>1 DEF TypeOK
  <2>3. /\ memory[p].caps \in SUBSET Capability /\ memory[p].labels \in SUBSET Labels
        /\ memory[p].notes \in SUBSET Notes
    BY <2>2 DEF Record
  <2>4. Created(t, s, ForkOf(memory[p], p))
    BY <1>1, <2>1, <2>3, NewSessionType DEF Created, ForkOf
  <2>. QED  BY <1>1, <1>3, <2>4 DEF Writing, Fork, TypeOK
<1>4. CASE GrantCapability(t)
  <2>1. PICK s \in Sessions, id \in Ids, kind \in Kinds, revokedBy \in SUBSET Kinds :
          LET cap == [id |-> id, kind |-> kind, parent |-> None, depth |-> 0, limit |-> None,
                      revokedBy |-> revokedBy]
          IN  Mutate(t, s, Change("grant", cap)) /\ minted' = minted \cup {cap}
    BY <1>4 DEF GrantCapability
  <2>. DEFINE cap == [id |-> id, kind |-> kind, parent |-> None, depth |-> 0, limit |-> None,
                      revokedBy |-> revokedBy]
  <2>2. cap \in Capability
    BY DEF Capability
  <2>3. Mutate(t, s, Change("grant", cap)) /\ minted' = minted \cup {cap}
    BY <2>1
  <2>. HIDE DEF cap
  <2>4. Change("grant", cap) \in Changes /\ Change("grant", cap).op = "grant"
        /\ Change("grant", cap).arg = cap
    BY <2>2 DEF Changes, Change
  <2>5. Writing(t)
    BY <1>1, <2>3, <2>4, MutateBegins
  <2>. QED  BY <1>1, <2>2, <2>3, <2>5 DEF TypeOK
<1>5. CASE RevokeCapability(t)
  <2>1. PICK s \in Sessions, id \in {c.id : c \in minted}, op \in {"revoke", "tear"} :
          Mutate(t, s, Change(op, id))
    BY <1>5 DEF RevokeCapability
  <2>2. Change(op, id) \in Changes /\ Change(op, id).op \in {"revoke", "tear"}
    BY DEF Changes, Change, TypeOK, Capability
  <2>. QED  BY <1>1, <1>5, <2>1, <2>2, MutateBegins DEF RevokeCapability, TypeOK
<1>6. CASE Delegate(t)
  <2>1. PICK from \in Sessions, to \in Sessions, id \in Ids, limit \in Limits \cup {None},
             revokedBy \in SUBSET Kinds :
          /\ memory[from] # None
          /\ \E parent \in memory[from].caps :
               /\ Mutate(t, to, Change("grant", Delegated(parent, id, limit, revokedBy)))
               /\ minted' = minted \cup {Delegated(parent, id, limit, revokedBy)}
    BY <1>6 DEF Delegate
  <2>0. PICK parent \in memory[from].caps :
          /\ Mutate(t, to, Change("grant", Delegated(parent, id, limit, revokedBy)))
          /\ minted' = minted \cup {Delegated(parent, id, limit, revokedBy)}
    BY <2>1
  <2>. DEFINE cap == Delegated(parent, id, limit, revokedBy)
  <2>2. parent \in Capability
    BY <2>1 DEF TypeOK, Record
  <2>3. cap \in Capability
    BY <2>2, GraphAssumption DEF Capability, Delegated
  <2>. HIDE DEF cap
  <2>4. Change("grant", cap) \in Changes /\ Change("grant", cap).op = "grant"
        /\ Change("grant", cap).arg = cap
    BY <2>3 DEF Changes, Change
  <2>5. Mutate(t, to, Change("grant", cap)) /\ minted' = minted \cup {cap}
    BY <2>0 DEF cap
  <2>6. Writing(t)
    BY <1>1, <2>4, <2>5, MutateBegins
  <2>. QED  BY <1>1, <2>3, <2>5, <2>6 DEF TypeOK
<1>7. CASE AddTags(t)
  <2>1. PICK s \in Sessions, tags \in SUBSET Labels : Mutate(t, s, Change("tags", tags))
    BY <1>7 DEF AddTags
  <2>2. Change("tags", tags) \in Changes /\ Change("tags", tags).op = "tags"
    BY DEF Changes, Change
  <2>. QED  BY <1>1, <1>7, <2>1, <2>2, MutateBegins DEF AddTags, TypeOK
<1>8. CASE AddNote(t)
  <2>1. PICK s \in Sessions, note \in Notes : Mutate(t, s, Change("note", note))
    BY <1>8 DEF AddNote
  <2>2. Change("note", note) \in Changes /\ Change("note", note).op = "note"
    BY DEF Changes, Change
  <2>. QED  BY <1>1, <1>8, <2>1, <2>2, MutateBegins DEF AddNote, TypeOK
<1>9. CASE Transition(t)
  <2>1. PICK s \in Sessions, status \in Statuses : Mutate(t, s, Change("status", status))
    BY <1>9 DEF Transition
  <2>2. Change("status", status) \in Changes /\ Change("status", status).op = "status"
    BY DEF Changes, Change
  <2>. QED  BY <1>1, <1>9, <2>1, <2>2, MutateBegins DEF Transition, TypeOK
<1>. QED  BY <1>2, <1>3, <1>4, <1>5, <1>6, <1>7, <1>8, <1>9

\* A call goes on as it was decided, ends, or is decided on what is in memory.
Called(t) ==
  /\ call' = [call EXCEPT ![t] = call'[t]]
  /\ call'[t] \in Call \cup {None}
  /\ call'[t] # None =>
       \/ /\ call[t] # None
          /\ call'[t].session = call[t].session /\ call'[t].snapshot = call[t].snapshot
          /\ call'[t].cap = call[t].cap
       \/ /\ call[t] = None
          /\ memory[call'[t].session] # None /\ call'[t].snapshot = memory[call'[t].session]

LEMMA WriteOrSkipWrites ==
  ASSUME TypeOK, Present, NEW t \in Tasks, call[t] # None, write[t] = None,
         NEW base \in {memory[call[t].session], call[t].snapshot}, NEW ch \in Changes,
         ch.op \notin {"create", "grant"},
         WriteOrSkip(t, base, ch), UNCHANGED <<memory, disk, told>>
  PROVE  Quiet \/ Writing(t)
<1>1. CASE Apply(ch, base) = base
  BY <1>1 DEF WriteOrSkip, Quiet
<1>2. CASE Apply(ch, base) # base
  <2>1. /\ call[t].session \in Sessions /\ memory[call[t].session] # None /\ base \in Record
    BY DEF TypeOK, Present, Call
  <2>2. Began(t, call[t].session, base, ch)
    BY <1>2, <2>1 DEF WriteOrSkip, Began
  <2>. QED  BY <2>2 DEF Writing
<1>. QED  BY <1>1, <1>2

LEMMA CallsWrite ==
  ASSUME TypeOK, Present, NEW t \in Tasks,
         \/ Decide(t) \/ RecordUsedKind(t) \/ RecordCapUse(t) \/ RunHandler(t)
         \/ HandlerRaises(t) \/ HandlerReturns(t) \/ ApplyInspectors(t) \/ PropagateTags(t)
  PROVE  /\ Quiet \/ Writing(t)
         /\ Called(t)
         /\ ops' \in 0 .. MaxOps /\ minted' = minted
         /\ ran' \in [Sessions -> [Ids -> Nat]] /\ UNCHANGED history
<1>0. call[t] # None => call[t] \in Call /\ call[t].session \in Sessions
                        /\ call[t].cap \in Capability /\ call[t].cap.kind \in Kinds
  BY DEF TypeOK, Call, Capability
<1>1. CASE Decide(t)
  <2>1. PICK s \in Sessions : memory[s] # None /\ \E cap \in memory[s].caps :
          call' = [call EXCEPT ![t] =
                 [session |-> s, snapshot |-> memory[s], cap |-> cap, step |-> "kind",
                  todo |-> ToCharge(memory[s], cap), raised |-> {}, tags |-> {}]]
    BY <1>1 DEF Decide
  <2>2. PICK cap \in memory[s].caps :
          call' = [call EXCEPT ![t] =
                 [session |-> s, snapshot |-> memory[s], cap |-> cap, step |-> "kind",
                  todo |-> ToCharge(memory[s], cap), raised |-> {}, tags |-> {}]]
    BY <2>1
  <2>3. memory[s] \in Record /\ memory[s].caps \subseteq Capability
    BY <2>1 DEF TypeOK, Record
  <2>4. ToCharge(memory[s], cap) \subseteq Capability
    BY <2>3 DEF ToCharge, Chain
  <2>5. call'[t] = [session |-> s, snapshot |-> memory[s], cap |-> cap, step |-> "kind",
                    todo |-> ToCharge(memory[s], cap), raised |-> {}, tags |-> {}]
    BY <2>2 DEF TypeOK
  <2>6. call'[t] \in Call
    BY <2>3, <2>4, <2>5 DEF Call
  <2>7. call' = [call EXCEPT ![t] = call'[t]]
    BY <2>2, <2>5
  <2>8. call'[t].session = s /\ call'[t].snapshot = memory[s]
    BY <2>5
  <2>9. call[t] = None
    BY <1>1 DEF Decide, Request, Idle
  <2>10. Called(t)
    BY <2>1, <2>6, <2>7, <2>8, <2>9 DEF Called
  <2>. QED  BY <1>1, <2>10, GraphAssumption DEF Decide, Request, TypeOK, Quiet
<1>2. CASE RecordUsedKind(t)
  <2>1. Change("kind", call[t].cap.kind) \in Changes /\ Change("kind", call[t].cap.kind).op = "kind"
    BY <1>0, <1>2 DEF RecordUsedKind, At, Changes, Change
  <2>2. Quiet \/ Writing(t)
    BY <1>2, <2>1, WriteOrSkipWrites DEF RecordUsedKind, At
  <2>3. call'[t] = [call[t] EXCEPT !.step = "charge"] /\ call' = [call EXCEPT ![t] = call'[t]]
    BY <1>2 DEF RecordUsedKind, TypeOK
  <2>4. Called(t)
    BY <1>0, <1>2, <2>3 DEF Called, Call, RecordUsedKind, At
  <2>. QED  BY <1>2, <2>2, <2>4 DEF RecordUsedKind, TypeOK
<1>3. CASE RecordCapUse(t)
  <2>1. PICK k \in call[t].todo :
          /\ Begin(t, call[t].session, memory[call[t].session], Change("use", k.id))
          /\ call' = [call EXCEPT ![t].todo = @ \ {k}]
    BY <1>3 DEF RecordCapUse
  <2>2. call[t] # None /\ write[t] = None
    BY <1>3 DEF RecordCapUse, At
  <2>3. k.id \in Ids
    BY <1>0, <2>2 DEF Call, Capability
  <2>4. Change("use", k.id) \in Changes /\ Change("use", k.id).op = "use"
    BY <2>3 DEF Changes, Change
  <2>5. memory[call[t].session] # None /\ memory[call[t].session] \in Record
    BY <1>0, <2>2 DEF Present, TypeOK
  <2>6. Began(t, call[t].session, memory[call[t].session], Change("use", k.id))
    BY <1>0, <1>3, <2>1, <2>2, <2>4, <2>5 DEF Began, RecordCapUse
  <2>7. call'[t] = [call[t] EXCEPT !.todo = @ \ {k}] /\ call' = [call EXCEPT ![t] = call'[t]]
    BY <2>1 DEF TypeOK
  <2>8. Called(t)
    BY <1>0, <2>2, <2>7 DEF Called, Call
  <2>. QED  BY <1>3, <2>6, <2>8 DEF RecordCapUse, TypeOK, Writing
<1>4. CASE RunHandler(t)
  <2>1. call'[t] = [call[t] EXCEPT !.step = "handler"] /\ call' = [call EXCEPT ![t] = call'[t]]
    BY <1>4 DEF RunHandler, TypeOK
  <2>2. Called(t)
    BY <1>0, <1>4, <2>1 DEF Called, Call, RunHandler, At
  <2>. DEFINE more == [i \in Ids |-> IF \E k \in Chain(call[t].snapshot.caps, call[t].cap) : k.id = i
                              THEN ran[call[t].session][i] + 1 ELSE ran[call[t].session][i]]
  <2>3. more \in [Ids -> Nat]
    BY <1>0, <1>4 DEF RunHandler, At, TypeOK
  <2>4. ran' = [ran EXCEPT ![call[t].session] = more]
    BY <1>0, <1>4 DEF RunHandler, At, TypeOK
  <2>. HIDE DEF more
  <2>5. ran' \in [Sessions -> [Ids -> Nat]]
    BY <2>3, <2>4 DEF TypeOK
  <2>. QED  BY <1>4, <2>2, <2>5 DEF RunHandler, Quiet, TypeOK
<1>5. CASE HandlerRaises(t)
  <2>1. call'[t] = None /\ call' = [call EXCEPT ![t] = call'[t]]
    BY <1>5 DEF HandlerRaises, TypeOK
  <2>. QED  BY <1>5, <2>1 DEF HandlerRaises, Quiet, TypeOK, Called
<1>6. CASE HandlerReturns(t)
  <2>1. PICK raised \in SUBSET Labels, tags \in SUBSET Labels :
          call' = [call EXCEPT ![t].step = "inspect", ![t].raised = raised, ![t].tags = tags]
    BY <1>6 DEF HandlerReturns
  <2>. DEFINE a == [call[t] EXCEPT !.step = "inspect"]
              b == [a EXCEPT !.raised = raised]
              c == [b EXCEPT !.tags = tags]
  <2>2. call[t] # None /\ call[t] \in Call
    BY <1>0, <1>6 DEF HandlerReturns, At
  <2>3. a \in Call /\ a.session = call[t].session /\ a.snapshot = call[t].snapshot
        /\ a.cap = call[t].cap
    BY <2>2 DEF Call
  <2>4. call' = [call EXCEPT ![t] = c]
    BY <2>1 DEF TypeOK
  <2>. HIDE DEF a
  <2>5. b \in Call /\ b.session = call[t].session /\ b.snapshot = call[t].snapshot
        /\ b.cap = call[t].cap
    BY <2>3 DEF Call
  <2>. HIDE DEF b
  <2>6. c \in Call /\ c.session = call[t].session /\ c.snapshot = call[t].snapshot
        /\ c.cap = call[t].cap
    BY <2>5 DEF Call
  <2>. HIDE DEF c
  <2>7. call'[t] = c
    BY <2>4 DEF TypeOK
  <2>8. Called(t)
    BY <2>2, <2>4, <2>6, <2>7 DEF Called
  <2>. QED  BY <1>6, <2>8 DEF HandlerReturns, Quiet, TypeOK
<1>7. CASE ApplyInspectors(t)
  <2>1. Change("tags", call[t].raised) \in Changes /\ Change("tags", call[t].raised).op = "tags"
    BY <1>0, <1>7 DEF ApplyInspectors, At, Changes, Change, Call
  <2>2. Quiet \/ Writing(t)
    BY <1>7, <2>1, WriteOrSkipWrites DEF ApplyInspectors, At
  <2>3. call'[t] = [call[t] EXCEPT !.step = "tags"] /\ call' = [call EXCEPT ![t] = call'[t]]
    BY <1>7 DEF ApplyInspectors, TypeOK
  <2>4. Called(t)
    BY <1>0, <1>7, <2>3 DEF Called, Call, ApplyInspectors, At
  <2>. QED  BY <1>7, <2>2, <2>4 DEF ApplyInspectors, TypeOK
<1>8. CASE PropagateTags(t)
  <2>1. Change("tags", call[t].tags) \in Changes /\ Change("tags", call[t].tags).op = "tags"
    BY <1>0, <1>8 DEF PropagateTags, At, Changes, Change, Call
  <2>2. Quiet \/ Writing(t)
    BY <1>8, <2>1, WriteOrSkipWrites DEF PropagateTags, At
  <2>3. call'[t] = None /\ call' = [call EXCEPT ![t] = call'[t]]
    BY <1>8 DEF PropagateTags, TypeOK
  <2>. QED  BY <1>8, <2>2, <2>3 DEF PropagateTags, TypeOK, Called
<1>. QED  BY <1>1, <1>2, <1>3, <1>4, <1>5, <1>6, <1>7, <1>8

-----------------------------------------------------------------------------
\* The copies of a session.

StoreType ==
  /\ memory \in [Sessions -> Record \cup {None}]
  /\ disk \in [Sessions -> Record \cup {None}]
  /\ write \in [Tasks -> Write \cup {None}]
  /\ told \in [Sessions -> Record \cup {None}]
  /\ overlapped \subseteq Sessions

PresentInStore ==
  /\ \A s \in Sessions :
       /\ memory[s] = None <=> told[s] = None
       /\ memory[s] # None => disk[s] # None
       /\ memory[s] = None => s \notin overlapped
  /\ \A t \in Writes : write[t].change.op # "create" => memory[write[t].session] # None

StoreInv == StoreType /\ PresentInStore /\ \A s \in Sessions \ overlapped : Lone(s)

\* One entry of write changes.
LEMMA WritesOnExcept ==
  ASSUME StoreType, NEW t \in Tasks, NEW w \in Write \cup {None},
         write' = [write EXCEPT ![t] = w]
  PROVE  /\ write' \in [Tasks -> Write \cup {None}]
         /\ write'[t] = w
         /\ \A u \in Tasks \ {t} : write'[u] = write[u]
         /\ Writes' = IF w = None THEN Writes \ {t} ELSE Writes \cup {t}
         /\ \A x : WritesOn(x)' = IF w # None /\ w.session = x THEN WritesOn(x) \cup {t}
                                  ELSE WritesOn(x) \ {t}
BY DEF StoreType, Writes, WritesOn

LEMMA BeganKeepsStore ==
  ASSUME StoreInv, NEW t \in Tasks, NEW s, NEW base, NEW ch, Began(t, s, base, ch)
  PROVE  StoreInv' /\ memory' = memory
<1>. DEFINE w == [session |-> s, copy |-> Apply(ch, base), change |-> ch, saved |-> FALSE]
<1>1. Apply(ch, base) \in Record
  BY ApplyFacts DEF Began, ChangeFacts
<1>2. w \in Write /\ w.session = s /\ w.copy = Apply(ch, base) /\ w.change = ch /\ ~w.saved
  BY <1>1 DEF Write, Began
<1>3. write' = [write EXCEPT ![t] = w]
  BY DEF Began, Begin
<1>. HIDE DEF w
<1>4. w # None
  BY <1>2, NoneIsNoRecord
<1>5. /\ write' \in [Tasks -> Write \cup {None}]
      /\ write'[t] = w
      /\ \A u \in Tasks \ {t} : write'[u] = write[u]
      /\ Writes' = Writes \cup {t}
      /\ \A x : WritesOn(x)' = IF w.session = x THEN WritesOn(x) \cup {t} ELSE WritesOn(x) \ {t}
  BY <1>2, <1>3, <1>4, WritesOnExcept DEF StoreInv
<1>6. UNCHANGED <<memory, disk, told>> /\ s \in Sessions /\ memory[s] # None /\ write[t] = None
  BY DEF Began
<1>7. overlapped' = IF WritesOn(s) # {} \/ base # memory[s] THEN overlapped \cup {s} ELSE overlapped
  BY DEF Began, Begin
<1>8. StoreType'
  BY <1>5, <1>6, <1>7 DEF StoreInv, StoreType
<1>9. PresentInStore'
  BY <1>2, <1>5, <1>6, <1>7 DEF StoreInv, PresentInStore, Writes
<1>10. ASSUME NEW x \in Sessions \ overlapped' PROVE Lone(x)'
  <2>1. Lone(x) /\ x \in Sessions
    BY <1>7, <1>10 DEF StoreInv
  <2>2. CASE x = s
    <3>1. WritesOn(x) = {} /\ base = memory[x]
      BY <1>7, <1>10, <2>2, <1>6
    <3>2. WritesOn(x)' = {t}
      BY <1>2, <1>5, <2>2, <3>1
    <3>. QED  BY <1>2, <1>5, <1>6, <2>1, <3>1, <3>2 DEF Lone
  <2>3. CASE x # s
    <3>1. t \notin WritesOn(x)
      BY <1>6 DEF WritesOn, Writes
    <3>2. WritesOn(x)' = WritesOn(x) /\ \A u \in WritesOn(x) : write'[u] = write[u]
      BY <1>2, <1>5, <2>3, <3>1 DEF WritesOn, Writes
    <3>. QED  BY <1>6, <2>1, <3>2 DEF Lone
  <2>. QED  BY <2>2, <2>3
<1>. QED  BY <1>6, <1>8, <1>9, <1>10 DEF StoreInv

LEMMA CreatedKeepsStore ==
  ASSUME StoreInv, NEW t \in Tasks, NEW s, NEW r, Created(t, s, r)
  PROVE  StoreInv' /\ memory' = memory
<1>. DEFINE w == [session |-> s, copy |-> r, change |-> Change("create", r), saved |-> FALSE]
<1>1. Change("create", r) \in Changes /\ Change("create", r).op = "create" /\ Change("create", r).arg = r
  BY DEF Changes, Change, Created
<1>2. w \in Write /\ w.session = s /\ w.copy = r /\ w.change = Change("create", r) /\ ~w.saved
  BY <1>1 DEF Write, Created
<1>3. write' = [write EXCEPT ![t] = w]
  BY DEF Created, Create
<1>. HIDE DEF w
<1>4. w # None
  BY <1>2, NoneIsNoRecord
<1>5. /\ write' \in [Tasks -> Write \cup {None}]
      /\ write'[t] = w
      /\ \A u \in Tasks \ {t} : write'[u] = write[u]
      /\ Writes' = Writes \cup {t}
      /\ \A x : WritesOn(x)' = IF w.session = x THEN WritesOn(x) \cup {t} ELSE WritesOn(x) \ {t}
  BY <1>2, <1>3, <1>4, WritesOnExcept DEF StoreInv
<1>6. /\ UNCHANGED <<memory, disk, told, overlapped>> /\ s \in Sessions
      /\ memory[s] = None /\ WritesOn(s) = {} /\ write[t] = None
  BY DEF Created, Create
<1>7. Apply(Change("create", r), memory[s]) = r
  BY <1>1, ApplyFacts DEF ChangeFacts
<1>8. StoreType'
  BY <1>5, <1>6 DEF StoreInv, StoreType
<1>9. PresentInStore'
  BY <1>1, <1>2, <1>5, <1>6 DEF StoreInv, PresentInStore, Writes
<1>10. ASSUME NEW x \in Sessions \ overlapped' PROVE Lone(x)'
  <2>1. Lone(x) /\ x \in Sessions
    BY <1>6, <1>10 DEF StoreInv
  <2>2. CASE x = s
    <3>1. WritesOn(x)' = {t}
      BY <1>2, <1>5, <1>6, <2>2
    <3>. QED  BY <1>2, <1>5, <1>6, <1>7, <2>1, <2>2, <3>1 DEF Lone
  <2>3. CASE x # s
    <3>1. t \notin WritesOn(x)
      BY <1>6 DEF WritesOn, Writes
    <3>2. WritesOn(x)' = WritesOn(x) /\ \A u \in WritesOn(x) : write'[u] = write[u]
      BY <1>2, <1>5, <2>3, <3>1 DEF WritesOn, Writes
    <3>. QED  BY <1>6, <2>1, <3>2 DEF Lone
  <2>. QED  BY <2>2, <2>3
<1>. QED  BY <1>6, <1>8, <1>9, <1>10 DEF StoreInv

LEMMA SaveKeepsStore ==
  ASSUME StoreInv, NEW t \in Tasks, Save(t)
  PROVE  StoreInv' /\ memory' = memory
<1>. DEFINE s == write[t].session
            w == [write[t] EXCEPT !.saved = TRUE]
<1>1. write[t] \in Write /\ write[t] # None /\ s \in Sessions /\ write[t].copy \in Record
  BY DEF Save, StoreInv, StoreType, Write
<1>2. /\ w \in Write /\ w.session = s /\ w.copy = write[t].copy /\ w.change = write[t].change
      /\ w.saved
  BY <1>1 DEF Write
<1>3. write' = [write EXCEPT ![t] = w]
  BY DEF Save, StoreInv, StoreType
<1>. HIDE DEF w
<1>4. w # None /\ w \in Write \cup {None} /\ StoreType
  BY <1>2, NoneIsNoRecord DEF StoreInv
<1>5. /\ write' \in [Tasks -> Write \cup {None}]
      /\ write'[t] = w
      /\ \A u \in Tasks \ {t} : write'[u] = write[u]
      /\ Writes' = Writes \cup {t}
      /\ \A x : WritesOn(x)' = IF w.session = x THEN WritesOn(x) \cup {t} ELSE WritesOn(x) \ {t}
  <2>. HIDE DEF s
  <2>. QED  BY <1>3, <1>4, WritesOnExcept
<1>6. UNCHANGED <<memory, told, overlapped>> /\ disk' = [disk EXCEPT ![s] = write[t].copy]
  BY DEF Save
<1>7. disk'[s] = write[t].copy /\ disk'[s] # None /\ \A x \in Sessions \ {s} : disk'[x] = disk[x]
  BY <1>1, <1>6, NoneIsNoRecord DEF StoreInv, StoreType
<1>8. StoreType'
  BY <1>1, <1>5, <1>6 DEF StoreInv, StoreType
<1>9. PresentInStore'
  BY <1>1, <1>2, <1>5, <1>6, <1>7 DEF StoreInv, PresentInStore, Writes
<1>10. t \in WritesOn(s) /\ \A x \in Sessions \ {s} : t \notin WritesOn(x)
  BY <1>1 DEF WritesOn, Writes
<1>11. \A x \in Sessions : WritesOn(x)' = WritesOn(x)
  BY <1>2, <1>5, <1>10
<1>12. ASSUME NEW x \in Sessions \ overlapped' PROVE Lone(x)'
  <2>1. Lone(x) /\ x \in Sessions
    BY <1>6, <1>12 DEF StoreInv
  <2>2. CASE x = s
    <3>1. WritesOn(x)' = {t}
      BY <1>10, <1>11, <2>1, <2>2 DEF Lone
    <3>. QED  BY <1>2, <1>5, <1>6, <1>7, <1>10, <2>1, <2>2, <3>1 DEF Lone
  <2>3. CASE x # s
    <3>1. \A u \in WritesOn(x) : write'[u] = write[u]
      BY <1>5, <1>10, <2>1, <2>3 DEF WritesOn, Writes
    <3>. QED  BY <1>6, <1>7, <1>11, <2>1, <2>3, <3>1 DEF Lone
  <2>. QED  BY <2>2, <2>3
<1>. QED  BY <1>6, <1>8, <1>9, <1>12 DEF StoreInv

LEMMA PublishKeepsStore ==
  ASSUME StoreInv, NEW t \in Tasks, Publish(t)
  PROVE  /\ StoreInv'
         /\ \A x \in Sessions : memory[x] # None => memory'[x] # None
<1>. DEFINE s == write[t].session
            ch == write[t].change
            copy == write[t].copy
<1>1. /\ write[t] \in Write /\ write[t] # None /\ s \in Sessions /\ copy \in Record
      /\ ch \in Changes /\ write[t].saved
  BY DEF Publish, PutIntoMemory, StoreInv, StoreType, Write
<1>2. /\ write' \in [Tasks -> Write \cup {None}]
      /\ write'[t] = None
      /\ \A u \in Tasks \ {t} : write'[u] = write[u]
      /\ Writes' = Writes \ {t}
      /\ \A x : WritesOn(x)' = WritesOn(x) \ {t}
  BY WritesOnExcept DEF Publish, PutIntoMemory, StoreInv
<1>3. /\ UNCHANGED <<disk, overlapped>>
      /\ memory' = [memory EXCEPT ![s] = copy]
      /\ told' = [told EXCEPT ![s] = Apply(ch, told[s])]
  BY <1>1 DEF Publish, PutIntoMemory, StoreInv, StoreType
<1>4. t \in WritesOn(s) /\ \A x \in Sessions \ {s} : t \notin WritesOn(x)
  BY <1>1 DEF WritesOn, Writes
<1>5. told[s] \in Record \/ ch.op = "create"
  BY <1>1, <1>4 DEF StoreInv, StoreType, PresentInStore, WritesOn
<1>6. Apply(ch, told[s]) \in Record
  BY <1>1, <1>5, ApplyFacts DEF ChangeFacts
<1>7. /\ memory'[s] = copy /\ memory'[s] # None /\ told'[s] = Apply(ch, told[s]) /\ told'[s] # None
      /\ \A x \in Sessions \ {s} : memory'[x] = memory[x] /\ told'[x] = told[x]
  BY <1>1, <1>3, <1>6, NoneIsNoRecord DEF StoreInv, StoreType
<1>8. StoreType'
  BY <1>1, <1>2, <1>3, <1>6 DEF StoreInv, StoreType
<1>9. s \in overlapped => memory[s] # None
  BY <1>1 DEF StoreInv, PresentInStore
<1>10. disk[s] # None
  <2>1. CASE s \in overlapped
    BY <1>1, <1>9, <2>1 DEF StoreInv, PresentInStore
  <2>2. CASE s \notin overlapped
    BY <1>1, <1>4, <2>2, NoneIsNoRecord DEF StoreInv, Lone
  <2>. QED  BY <2>1, <2>2
<1>11. PresentInStore'
  <2>1. \A x \in Sessions : memory[x] # None => memory'[x] # None
    BY <1>7
  <2>2. ASSUME NEW x \in Sessions
        PROVE  /\ memory'[x] = None <=> told'[x] = None
               /\ memory'[x] # None => disk'[x] # None
               /\ memory'[x] = None => x \notin overlapped'
    BY <1>3, <1>7, <1>10 DEF StoreInv, PresentInStore
  <2>3. ASSUME NEW u \in Writes', write'[u].change.op # "create"
        PROVE  memory'[write'[u].session] # None
    <3>1. u \in Writes /\ write'[u] = write[u] /\ write[u].session \in Sessions
      BY <1>2, <2>3 DEF StoreInv, StoreType, Write, Writes
    <3>. QED  BY <2>1, <2>3, <3>1 DEF StoreInv, PresentInStore
  <2>. QED  BY <2>2, <2>3 DEF PresentInStore
<1>12. ASSUME NEW x \in Sessions \ overlapped' PROVE Lone(x)'
  <2>1. Lone(x) /\ x \in Sessions
    BY <1>3, <1>12 DEF StoreInv
  <2>2. CASE x = s
    <3>1. WritesOn(x)' = {}
      BY <1>2, <1>4, <2>1, <2>2 DEF Lone
    <3>2. copy = Apply(ch, memory[s]) /\ disk[s] = copy /\ memory[s] = told[s]
      BY <1>1, <1>4, <2>1, <2>2 DEF Lone
    <3>. QED  BY <1>3, <1>7, <2>2, <3>1, <3>2 DEF Lone
  <2>3. CASE x # s
    <3>1. WritesOn(x)' = WritesOn(x) /\ \A u \in WritesOn(x) : write'[u] = write[u]
      BY <1>2, <1>4, <2>1, <2>3 DEF WritesOn, Writes
    <3>. QED  BY <1>3, <1>7, <2>1, <2>3, <3>1 DEF Lone
  <2>. QED  BY <2>2, <2>3
<1>. QED  BY <1>7, <1>8, <1>11, <1>12 DEF StoreInv

LEMMA SaveRaisesKeepsStore ==
  ASSUME StoreInv, NEW t \in Tasks, SaveRaises(t)
  PROVE  StoreInv' /\ memory' = memory
<1>. DEFINE s == write[t].session
<1>1. /\ write[t] \in Write /\ write[t] # None /\ s \in Sessions /\ ~write[t].saved
      /\ UNCHANGED <<memory, disk, told, overlapped>>
  BY DEF SaveRaises, StoreInv, StoreType, Write
<1>2. /\ write' \in [Tasks -> Write \cup {None}]
      /\ write'[t] = None
      /\ \A u \in Tasks \ {t} : write'[u] = write[u]
      /\ Writes' = Writes \ {t}
      /\ \A x : WritesOn(x)' = WritesOn(x) \ {t}
  BY WritesOnExcept DEF SaveRaises, StoreInv
<1>3. t \in WritesOn(s) /\ \A x \in Sessions \ {s} : t \notin WritesOn(x)
  BY <1>1 DEF WritesOn, Writes
<1>4. StoreType'
  BY <1>1, <1>2 DEF StoreInv, StoreType
<1>5. PresentInStore'
  BY <1>1, <1>2 DEF StoreInv, PresentInStore, Writes
<1>6. ASSUME NEW x \in Sessions \ overlapped' PROVE Lone(x)'
  <2>1. Lone(x) /\ x \in Sessions
    BY <1>1, <1>6 DEF StoreInv
  <2>2. CASE x = s
    <3>1. WritesOn(x)' = {} /\ disk[x] = memory[x]
      BY <1>1, <1>2, <1>3, <2>1, <2>2 DEF Lone
    <3>. QED  BY <1>1, <2>1, <3>1 DEF Lone
  <2>3. CASE x # s
    <3>1. WritesOn(x)' = WritesOn(x) /\ \A u \in WritesOn(x) : write'[u] = write[u]
      BY <1>2, <1>3, <2>1, <2>3 DEF WritesOn, Writes
    <3>. QED  BY <1>1, <2>1, <3>1 DEF Lone
  <2>. QED  BY <2>2, <2>3
<1>. QED  BY <1>1, <1>4, <1>5, <1>6 DEF StoreInv

LEMMA RestartKeepsStore ==
  ASSUME StoreInv, Restart
  PROVE  StoreInv' /\ \A t \in Tasks : write'[t] = None /\ call'[t] = None
<1>1. /\ memory' = disk /\ UNCHANGED <<disk, overlapped>>
      /\ write' = [t \in Tasks |-> None] /\ call' = [t \in Tasks |-> None]
  BY DEF Restart
<1>2. Writes' = {} /\ \A x : WritesOn(x)' = {}
  BY <1>1 DEF Writes, WritesOn
<1>3. ASSUME NEW x \in Sessions \ overlapped
      PROVE  told'[x] = disk[x]
  <2>1. Lone(x)
    BY DEF StoreInv
  <2>2. CASE \E t \in WritesOn(x) : write[t].saved
    <3>. DEFINE t == CHOOSE t \in WritesOn(x) : write[t].saved
    <3>1. t \in WritesOn(x) /\ write[t].saved
      BY <2>2
    <3>2. told'[x] = Apply(write[t].change, told[x])
      BY <1>3, <2>2 DEF Restart
    <3>. HIDE DEF t
    <3>. QED  BY <2>1, <3>1, <3>2 DEF Lone
  <2>3. CASE ~ \E t \in WritesOn(x) : write[t].saved
    <3>1. told'[x] = told[x]
      BY <1>3, <2>3 DEF Restart
    <3>2. disk[x] = memory[x]
      BY <2>1, <2>3 DEF Lone
    <3>. QED  BY <2>1, <3>1, <3>2 DEF Lone
  <2>. QED  BY <2>2, <2>3
<1>4. ASSUME NEW x \in overlapped
      PROVE  told'[x] = told[x] /\ told[x] # None /\ disk[x] # None /\ x \in Sessions
  BY DEF Restart, StoreInv, PresentInStore, StoreType
<1>5. \A x \in Sessions : told'[x] \in Record \cup {None}
  BY <1>3, <1>4 DEF StoreInv, StoreType
<1>6. told' = [x \in Sessions |-> told'[x]]
  BY DEF Restart
<1>7. StoreType'
  BY <1>1, <1>5, <1>6 DEF StoreInv, StoreType
<1>8. PresentInStore'
  BY <1>1, <1>2, <1>3, <1>4 DEF PresentInStore
<1>9. \A x \in Sessions \ overlapped' : Lone(x)'
  BY <1>1, <1>2, <1>3 DEF Lone
<1>. QED  BY <1>1, <1>7, <1>8, <1>9 DEF StoreInv

-----------------------------------------------------------------------------
\* Every step keeps Stored.

OtherType ==
  /\ ops \in 0 .. MaxOps
  /\ minted \subseteq Capability
  /\ ran \in [Sessions -> [Ids -> Nat]]
  /\ lost \in [Sessions -> [Ids -> Nat]]
  /\ firm \in [Sessions -> SUBSET Ids]

CallsArePresent ==
  /\ call \in [Tasks -> Call \cup {None}]
  /\ \A t \in Tasks : call[t] # None => memory[call[t].session] # None

LEMMA StoredParts == Stored <=> StoreInv /\ OtherType /\ CallsArePresent
BY DEF Stored, TypeOK, Present, StoreInv, StoreType, PresentInStore, OtherType, CallsArePresent

LEMMA StoredPartsNext == StoreInv' /\ OtherType' /\ CallsArePresent' => Stored'
BY DEF Stored, TypeOK, Present, StoreInv, StoreType, PresentInStore, OtherType, CallsArePresent

LEMMA StoredInit == Init => Stored
<1>. SUFFICES ASSUME Init PROVE Stored
  OBVIOUS
<1>1. PICK id \in Ids, kind \in Kinds, limit \in Limits, forked \in SUBSET (Sessions \ {Root}) :
        LET cap == [id |-> id, kind |-> kind, parent |-> None, depth |-> 0, limit |-> limit,
                    revokedBy |-> {}]
        IN  /\ memory = [s \in Sessions |->
                       IF s = Root THEN NewSession({cap}, {}, {}, None)
                       ELSE IF s \in forked THEN NewSession({cap}, {}, {}, Root) ELSE None]
            /\ minted = {cap}
  BY DEF Init
<1>. DEFINE cap == [id |-> id, kind |-> kind, parent |-> None, depth |-> 0, limit |-> limit,
                    revokedBy |-> {}]
<1>2. cap \in Capability
  BY GraphAssumption DEF Capability
<1>. HIDE DEF cap
<1>3. /\ memory = [s \in Sessions |->
                     IF s = Root THEN NewSession({cap}, {}, {}, None)
                     ELSE IF s \in forked THEN NewSession({cap}, {}, {}, Root) ELSE None]
      /\ minted = {cap}
  BY <1>1 DEF cap
<1>4. NewSession({cap}, {}, {}, None) \in Record /\ NewSession({cap}, {}, {}, Root) \in Record
  BY <1>2, NewSessionType, GraphAssumption
<1>5. memory \in [Sessions -> Record \cup {None}]
  BY <1>3, <1>4
<1>6. /\ disk = memory /\ told = memory /\ write = [t \in Tasks |-> None]
      /\ call = [t \in Tasks |-> None] /\ ops = 0 /\ overlapped = {}
      /\ ran = [s \in Sessions |-> [i \in Ids |-> 0]] /\ lost = ran
      /\ firm = [s \in Sessions |-> {}]
  BY DEF Init
<1>7. Writes = {} /\ \A s : WritesOn(s) = {}
  BY <1>6 DEF Writes, WritesOn
<1>8. StoreInv
  BY <1>5, <1>6, <1>7 DEF StoreInv, StoreType, PresentInStore, Lone
<1>9. OtherType /\ CallsArePresent
  BY <1>2, <1>3, <1>6, GraphAssumption DEF OtherType, CallsArePresent
<1>. QED  BY <1>8, <1>9, StoredParts

LEMMA QuietKeepsStore ==
  ASSUME StoreInv, Quiet
  PROVE  StoreInv' /\ memory' = memory
BY DEF Quiet, StoreInv, StoreType, PresentInStore, Lone, Writes, WritesOn

LEMMA WritingKeepsStore ==
  ASSUME StoreInv, NEW t \in Tasks, Quiet \/ Writing(t)
  PROVE  StoreInv' /\ memory' = memory
BY QuietKeepsStore, BeganKeepsStore, CreatedKeepsStore DEF Writing

\* What was lost, and what is firm, when a write is published and after a restart.
LEMMA MissingIsNat ==
  ASSUME NEW m \in Nat, NEW n \in Nat
  PROVE  Missing(m, n) \in Nat /\ n + Missing(m, n) >= m /\ (m <= n => Missing(m, n) = 0)
BY DEF Missing

LEMMA UsesType ==
  ASSUME NEW r \in Record \cup {None}, NEW i \in Ids
  PROVE  Uses(r, i) \in Nat
BY DEF Uses, Record

Charge(t, i) == IF write[t].change.op = "use" /\ write[t].change.arg = i THEN 1 ELSE 0

LEMMA PublishLoses ==
  ASSUME TypeOK, NEW t \in Tasks, Publish(t)
  PROVE  /\ lost' \in [Sessions -> [Ids -> Nat]] /\ firm' \in [Sessions -> SUBSET Ids]
         /\ \A s \in Sessions \ {write[t].session} : lost'[s] = lost[s] /\ firm'[s] = firm[s]
         /\ \A i \in Ids :
              lost'[write[t].session][i] = lost[write[t].session][i]
                + Missing(Uses(memory[write[t].session], i) + Charge(t, i), write[t].copy.uses[i])
         /\ \/ firm'[write[t].session] = firm[write[t].session]
            \/ /\ Undisturbed(t)
               /\ firm'[write[t].session] = firm[write[t].session] \cup {write[t].change.arg}
<1>. DEFINE s == write[t].session
            more == [i \in Ids |-> lost[s][i]
                      + Missing(Uses(memory[s], i) + Charge(t, i), write[t].copy.uses[i])]
            done == IF Undisturbed(t) THEN firm[s] \cup {write[t].change.arg} ELSE firm[s]
<1>1. /\ write[t] \in Write /\ s \in Sessions /\ write[t].copy \in Record
      /\ write[t].change \in Changes
  BY DEF Publish, TypeOK, Write
<1>2. lost' = [lost EXCEPT ![s] = more]
  BY <1>1 DEF Publish, PutIntoMemory, Charge, TypeOK
<1>3. firm' = [firm EXCEPT ![s] = done]
  BY <1>1 DEF Publish, PutIntoMemory, TypeOK
<1>4. ASSUME NEW i \in Ids PROVE more[i] \in Nat
  <2>1. Uses(memory[s], i) \in Nat /\ write[t].copy.uses[i] \in Nat /\ Charge(t, i) \in Nat
    BY <1>1, UsesType DEF TypeOK, Record, Charge
  <2>2. Missing(Uses(memory[s], i) + Charge(t, i), write[t].copy.uses[i]) \in Nat
    <3>1. Uses(memory[s], i) + Charge(t, i) \in Nat
      BY <2>1
    <3>. QED  BY <2>1, <3>1, MissingIsNat
  <2>3. lost[s][i] \in Nat
    BY <1>1 DEF TypeOK
  <2>. QED  BY <2>2, <2>3
<1>5. more \in [Ids -> Nat]
  BY <1>4
<1>6. done \in SUBSET Ids
  <2>1. write[t].change.op \in {"revoke", "tear"} => write[t].change.arg \in Ids
    BY <1>1 DEF Changes
  <2>. QED  BY <1>1, <2>1 DEF Undisturbed, TypeOK
<1>7. \A i \in Ids : more[i] = lost[s][i]
        + Missing(Uses(memory[s], i) + Charge(t, i), write[t].copy.uses[i])
  OBVIOUS
<1>8. \/ done = firm[s]
      \/ Undisturbed(t) /\ done = firm[s] \cup {write[t].change.arg}
  OBVIOUS
<1>. HIDE DEF more, done
<1>9. lost' \in [Sessions -> [Ids -> Nat]] /\ lost'[s] = more /\ \A x \in Sessions \ {s} : lost'[x] = lost[x]
  BY <1>1, <1>2, <1>5 DEF TypeOK
<1>10. firm' \in [Sessions -> SUBSET Ids] /\ firm'[s] = done /\ \A x \in Sessions \ {s} : firm'[x] = firm[x]
  BY <1>1, <1>3, <1>6 DEF TypeOK
<1>. QED  BY <1>7, <1>8, <1>9, <1>10

LEMMA RestartLoses ==
  ASSUME TypeOK, Restart
  PROVE  /\ lost' \in [Sessions -> [Ids -> Nat]]
         /\ \A s \in Sessions, i \in Ids :
              lost'[s][i] = lost[s][i] + Missing(Uses(memory[s], i), Uses(disk[s], i))
<1>1. lost' = [s \in Sessions |->
                 [i \in Ids |-> lost[s][i] + Missing(Uses(memory[s], i), Uses(disk[s], i))]]
  BY DEF Restart
<1>2. ASSUME NEW s \in Sessions, NEW i \in Ids
      PROVE  lost[s][i] + Missing(Uses(memory[s], i), Uses(disk[s], i)) \in Nat
  <2>1. Uses(memory[s], i) \in Nat /\ Uses(disk[s], i) \in Nat
    BY UsesType DEF TypeOK
  <2>2. Missing(Uses(memory[s], i), Uses(disk[s], i)) \in Nat
    BY <2>1, MissingIsNat
  <2>. QED  BY <2>2 DEF TypeOK
<1>. QED  BY <1>1, <1>2

LEMMA StoredStep == Stored /\ [Next]_vars => Stored'
<1>. SUFFICES ASSUME Stored, [Next]_vars PROVE Stored'
  OBVIOUS
<1>0. StoreInv /\ OtherType /\ CallsArePresent /\ TypeOK /\ Present
  BY StoredParts DEF Stored
<1>1. CASE UNCHANGED vars
  BY <1>0, <1>1, QuietKeepsStore, StoredPartsNext DEF vars, Quiet, OtherType, CallsArePresent
<1>2. CASE Restart
  <2>1. /\ UNCHANGED <<ops, minted, ran, firm>>
        /\ call' = [t \in Tasks |-> None]
    BY <1>2 DEF Restart
  <2>2. OtherType'
    BY <1>0, <1>2, <2>1, RestartLoses DEF OtherType
  <2>3. CallsArePresent'
    BY <2>1 DEF CallsArePresent
  <2>. QED  BY <1>0, <1>2, <2>2, <2>3, RestartKeepsStore, StoredPartsNext
<1>3. ASSUME NEW t \in Tasks, Save(t) \/ SaveRaises(t)
      PROVE  Stored'
  <2>1. StoreInv' /\ memory' = memory
    BY <1>0, <1>3, SaveKeepsStore, SaveRaisesKeepsStore
  <2>2. UNCHANGED <<ops, minted, ran, lost, firm>> /\ \A u \in Tasks : call'[u] \in {call[u], None}
    BY <1>0, <1>3 DEF Save, SaveRaises, history, TypeOK
  <2>3. CallsArePresent'
    <3>1. call' = [u \in Tasks |-> call'[u]]
      BY <1>0, <1>3 DEF Save, SaveRaises, CallsArePresent
    <3>2. call' \in [Tasks -> Call \cup {None}]
      BY <1>0, <2>2, <3>1 DEF CallsArePresent
    <3>. QED  BY <1>0, <2>1, <2>2, <3>2 DEF CallsArePresent
  <2>. QED  BY <1>0, <2>1, <2>2, <2>3, StoredPartsNext DEF OtherType
<1>6. ASSUME NEW t \in Tasks, Publish(t)
      PROVE  Stored'
  <2>1. StoreInv' /\ \A x \in Sessions : memory[x] # None => memory'[x] # None
    BY <1>0, <1>6, PublishKeepsStore
  <2>2. UNCHANGED <<call, ops, minted, ran>>
    BY <1>6 DEF Publish, PutIntoMemory
  <2>3. CallsArePresent'
    BY <1>0, <2>1, <2>2 DEF CallsArePresent, Call
  <2>4. OtherType'
    BY <1>0, <1>6, <2>2, PublishLoses DEF OtherType
  <2>. QED  BY <2>1, <2>3, <2>4, StoredPartsNext
<1>4. ASSUME NEW t \in Tasks,
             \/ New(t) \/ Fork(t) \/ GrantCapability(t) \/ RevokeCapability(t) \/ Delegate(t)
             \/ AddTags(t) \/ AddNote(t) \/ Transition(t)
      PROVE  Stored'
  <2>1. /\ Writing(t) /\ UNCHANGED <<call, ran, lost, firm>>
        /\ ops' \in 0 .. MaxOps /\ minted' \subseteq Capability
    BY <1>0, <1>4, RequestsWrite DEF history
  <2>2. StoreInv' /\ memory' = memory
    BY <1>0, <2>1, WritingKeepsStore
  <2>3. OtherType' /\ CallsArePresent'
    BY <1>0, <2>1, <2>2 DEF OtherType, CallsArePresent
  <2>. QED  BY <2>2, <2>3, StoredPartsNext
<1>5. ASSUME NEW t \in Tasks,
             \/ Decide(t) \/ RecordUsedKind(t) \/ RecordCapUse(t) \/ RunHandler(t)
             \/ HandlerRaises(t) \/ HandlerReturns(t) \/ ApplyInspectors(t) \/ PropagateTags(t)
      PROVE  Stored'
  <2>1. /\ Quiet \/ Writing(t)
        /\ Called(t)
        /\ ops' \in 0 .. MaxOps /\ minted' = minted
        /\ ran' \in [Sessions -> [Ids -> Nat]] /\ UNCHANGED <<lost, firm>>
    BY <1>0, <1>5, CallsWrite DEF history
  <2>2. StoreInv' /\ memory' = memory
    BY <1>0, <2>1, WritingKeepsStore
  <2>3. OtherType'
    BY <1>0, <2>1 DEF OtherType
  <2>4. CallsArePresent'
    <3>1. call' \in [Tasks -> Call \cup {None}] /\ \A u \in Tasks \ {t} : call'[u] = call[u]
      BY <1>0, <2>1 DEF Called, CallsArePresent
    <3>2. call'[t] # None => memory[call'[t].session] # None
      BY <1>0, <2>1 DEF Called, CallsArePresent
    <3>. QED  BY <1>0, <2>2, <3>1, <3>2 DEF CallsArePresent
  <2>. QED  BY <2>2, <2>3, <2>4, StoredPartsNext
<1>. QED  BY <1>1, <1>2, <1>3, <1>4, <1>5, <1>6 DEF Next

LEMMA StoredAlways == Spec => []Stored
BY StoredInit, StoredStep, PTL DEF Spec

\* The state of the graph is what its types say, in particular every record it publishes
\* or stores is a whole session, whatever was lost in a restart.
THEOREM TypeCorrect == Spec => []TypeOK
<1>1. Stored => TypeOK
  BY DEF Stored
<1>. QED  BY <1>1, StoredAlways, PTL

\* A session whose writes never overlap is in memory, in the store and after a restart
\* what the changes reported done make of it.
THEOREM NothingIsLostAlways == Spec => []NothingIsLost
<1>1. Stored => NothingIsLost
  BY DEF Stored, Lone, NothingIsLost
<1>. QED  BY <1>1, StoredAlways, PTL

-----------------------------------------------------------------------------
\* Only Decide begins a call.
LEMMA OnlyDecideDecides ==
  ASSUME TypeOK, [Next]_vars, NEW t \in Tasks, Decides(t)
  PROVE  Decide(t)
<1>1. CASE UNCHANGED vars
  BY <1>1 DEF vars, Decides
<1>2. CASE Restart
  BY <1>2 DEF Restart, Decides
<1>3. ASSUME NEW u \in Tasks,
             \/ Save(u) \/ SaveRaises(u) \/ Publish(u)
             \/ New(u) \/ Fork(u) \/ GrantCapability(u) \/ RevokeCapability(u) \/ Delegate(u)
             \/ AddTags(u) \/ AddNote(u) \/ Transition(u)
      PROVE  FALSE
  BY <1>3 DEF TypeOK, Decides, Save, SaveRaises, Publish, PutIntoMemory, New, Fork, GrantCapability,
     RevokeCapability, Delegate, AddTags, AddNote, Transition
<1>4. ASSUME NEW u \in Tasks,
             \/ RecordUsedKind(u) \/ RecordCapUse(u) \/ RunHandler(u)
             \/ HandlerRaises(u) \/ HandlerReturns(u) \/ ApplyInspectors(u) \/ PropagateTags(u)
      PROVE  FALSE
  <2>1. call[u] # None /\ \A v \in Tasks \ {u} : call'[v] = call[v]
    BY <1>4 DEF TypeOK, At, RecordUsedKind, RecordCapUse, RunHandler, HandlerRaises, HandlerReturns,
       ApplyInspectors, PropagateTags
  <2>. QED  BY <2>1 DEF Decides
<1>5. ASSUME NEW u \in Tasks, Decide(u)
      PROVE  u = t
  BY <1>5 DEF Decide, TypeOK, Decides
<1>. QED  BY <1>1, <1>2, <1>3, <1>4, <1>5 DEF Next

LEMMA FirmInit == Init => Firm
<1>. SUFFICES ASSUME Init PROVE Firm
  OBVIOUS
<1>1. /\ firm = [s \in Sessions |-> {}] /\ write = [t \in Tasks |-> None]
      /\ call = [t \in Tasks |-> None]
  BY DEF Init
<1>. QED  BY <1>1 DEF Firm

\* A write starts from a copy that has the firm revocations.
LEMMA WritingKeepsFirm ==
  ASSUME StoreType, Firm, NEW t \in Tasks, Writing(t), firm' = firm,
         \A u \in Tasks : call'[u] # None => firm[call'[u].session] \subseteq call'[u].snapshot.revoked
  PROVE  Firm'
<1>1. ASSUME NEW s, NEW base, NEW ch, Began(t, s, base, ch)
      PROVE  Firm'
  <2>. DEFINE w == [session |-> s, copy |-> Apply(ch, base), change |-> ch, saved |-> FALSE]
  <2>1. ChangeFacts(ch, base, Apply(ch, base)) /\ ch \in Changes /\ ch.op # "create"
    BY <1>1, ApplyFacts DEF Began
  <2>2. w \in Write /\ w.copy = Apply(ch, base) /\ w.session = s /\ w.change = ch
    BY <1>1, <2>1 DEF Write, Began, ChangeFacts
  <2>3. write' = [write EXCEPT ![t] = w] /\ UNCHANGED <<memory, disk>>
    BY <1>1 DEF Began, Begin
  <2>. HIDE DEF w
  <2>4. firm[s] \subseteq base.revoked
    BY <1>1 DEF Began, Firm, RevokedOf
  <2>5. /\ firm[s] \subseteq w.copy.revoked
        /\ w.change.op \in {"revoke", "tear"} => w.change.arg \in w.copy.revoked
    BY <2>1, <2>2, <2>4 DEF ChangeFacts
  <2>6. write'[t] = w /\ \A u \in Tasks \ {t} : write'[u] = write[u]
    BY <2>3 DEF StoreType
  <2>. QED  BY <2>2, <2>3, <2>5, <2>6 DEF Firm
<1>2. ASSUME NEW s, NEW r, Created(t, s, r)
      PROVE  Firm'
  <2>. DEFINE w == [session |-> s, copy |-> r, change |-> Change("create", r), saved |-> FALSE]
  <2>1. w.session = s /\ w.change.op = "create" /\ w.copy = r
    BY DEF Change
  <2>2. write' = [write EXCEPT ![t] = w] /\ UNCHANGED <<memory, disk>>
    BY <1>2 DEF Created, Create
  <2>. HIDE DEF w
  <2>3. firm[s] = {}
    BY <1>2 DEF Created, Create, Firm, RevokedOf
  <2>4. write'[t] = w /\ \A u \in Tasks \ {t} : write'[u] = write[u]
    BY <2>2 DEF StoreType
  <2>. QED  BY <2>1, <2>2, <2>3, <2>4 DEF Firm
<1>. QED  BY <1>1, <1>2 DEF Writing

LEMMA FirmStep == Stored /\ Firm /\ [Next]_vars => Firm'
<1>. SUFFICES ASSUME Stored, Firm, [Next]_vars PROVE Firm'
  OBVIOUS
<1>0. TypeOK /\ Present /\ StoreType
  BY StoredParts DEF Stored, StoreInv
<1>1. CASE UNCHANGED vars
  BY <1>1 DEF vars, Firm
<1>2. CASE Restart
  <2>1. /\ memory' = disk /\ disk' = disk /\ firm' = firm
        /\ write' = [t \in Tasks |-> None] /\ call' = [t \in Tasks |-> None]
    BY <1>2 DEF Restart
  <2>. QED  BY <2>1 DEF Firm
<1>3. ASSUME NEW t \in Tasks, Save(t)
      PROVE  Firm'
  <2>1. /\ UNCHANGED <<memory, call, firm>> /\ write[t] # None /\ write[t].copy \in Record
        /\ write[t].session \in Sessions
    BY <1>0, <1>3 DEF Save, history, TypeOK, Write
  <2>2. \A u \in Tasks : write'[u] # None =>
          /\ write[u] # None /\ write'[u].change = write[u].change /\ write'[u].copy = write[u].copy
          /\ write'[u].session = write[u].session
    BY <1>0, <1>3 DEF Save, TypeOK, Write
  <2>3. /\ disk'[write[t].session] = write[t].copy
        /\ \A s \in Sessions \ {write[t].session} : disk'[s] = disk[s]
    BY <1>0, <1>3, <2>1 DEF Save, TypeOK
  <2>4. firm[write[t].session] \subseteq RevokedOf(write[t].copy)
    BY <2>1, NoneIsNoRecord DEF Firm, RevokedOf
  <2>. QED  BY <2>1, <2>2, <2>3, <2>4 DEF Firm
<1>4. ASSUME NEW t \in Tasks, SaveRaises(t)
      PROVE  Firm'
  <2>1. /\ UNCHANGED <<memory, disk, firm>>
        /\ \A u \in Tasks : (write'[u] # None => write'[u] = write[u]) /\ (call'[u] # None => call'[u] = call[u])
    BY <1>0, <1>4 DEF SaveRaises, history, TypeOK
  <2>. QED  BY <2>1 DEF Firm
<1>5. ASSUME NEW t \in Tasks, Publish(t)
      PROVE  Firm'
  <2>. DEFINE s == write[t].session
  <2>1. /\ UNCHANGED <<call, disk>> /\ write[t] # None /\ s \in Sessions /\ write[t].copy \in Record
        /\ write'[t] = None /\ \A u \in Tasks \ {t} : write'[u] = write[u]
        /\ memory'[s] = write[t].copy /\ \A x \in Sessions \ {s} : memory'[x] = memory[x]
    BY <1>0, <1>5 DEF Publish, PutIntoMemory, TypeOK, Write
  <2>2. /\ \A x \in Sessions \ {s} : firm'[x] = firm[x]
        /\ \/ firm'[s] = firm[s]
           \/ Undisturbed(t) /\ firm'[s] = firm[s] \cup {write[t].change.arg}
    BY <1>0, <1>5, PublishLoses
  <2>3. RevokedOf(write[t].copy) = write[t].copy.revoked
    BY <2>1, NoneIsNoRecord DEF RevokedOf
  <2>4. firm'[s] \subseteq write[t].copy.revoked
    BY <2>1, <2>2 DEF Firm, Undisturbed
  <2>5. CASE firm'[s] = firm[s]
    <3>1. \A x \in Sessions : firm'[x] = firm[x]
      BY <2>2, <2>5
    <3>2. \A u \in Tasks : (write[u] # None => write[u].session \in Sessions)
                           /\ (call[u] # None => call[u].session \in Sessions)
      BY <1>0 DEF TypeOK, Write, Call
    <3>3. \A x \in Sessions : firm'[x] \subseteq RevokedOf(memory'[x]) /\ firm'[x] \subseteq RevokedOf(disk'[x])
      BY <2>1, <2>3, <2>4, <3>1 DEF Firm
    <3>4. \A u \in Tasks : write'[u] # None =>
            /\ firm'[write'[u].session] \subseteq write'[u].copy.revoked
            /\ write'[u].change.op \in {"revoke", "tear"} => write'[u].change.arg \in write'[u].copy.revoked
      <4>1. SUFFICES ASSUME NEW u \in Tasks, write'[u] # None
                     PROVE  /\ firm'[write'[u].session] \subseteq write'[u].copy.revoked
                            /\ write'[u].change.op \in {"revoke", "tear"} =>
                                 write'[u].change.arg \in write'[u].copy.revoked
        OBVIOUS
      <4>2. write'[u] = write[u] /\ write[u] # None
        BY <2>1, <4>1
      <4>3. firm'[write[u].session] = firm[write[u].session]
        BY <3>1, <3>2, <4>2
      <4>. QED  BY <4>2, <4>3 DEF Firm
    <3>5. \A u \in Tasks : call'[u] # None => firm'[call'[u].session] \subseteq call'[u].snapshot.revoked
      <4>1. SUFFICES ASSUME NEW u \in Tasks, call[u] # None
                     PROVE  firm'[call[u].session] \subseteq call[u].snapshot.revoked
        BY <2>1
      <4>2. firm'[call[u].session] = firm[call[u].session]
        BY <3>1, <3>2, <4>1
      <4>. QED  BY <4>1, <4>2 DEF Firm
    <3>. QED  BY <3>3, <3>4, <3>5 DEF Firm
  <2>6. CASE Undisturbed(t)
    <3>1. disk[s] = write[t].copy
      BY <2>6 DEF Undisturbed
    <3>2. \A u \in Tasks \ {t} : write[u] # None => write[u].session # s /\ write[u].session \in Sessions
      BY <1>0, <2>1, <2>6 DEF Undisturbed, WritesOn, Writes, TypeOK, Write
    <3>3. \A u \in Tasks : call[u] # None => call[u].session # s /\ call[u].session \in Sessions
      BY <1>0, <2>6 DEF Undisturbed, TypeOK, Call
    <3>4. \A x \in Sessions : firm'[x] \subseteq RevokedOf(memory'[x]) /\ firm'[x] \subseteq RevokedOf(disk'[x])
      BY <2>1, <2>2, <2>3, <2>4, <3>1 DEF Firm
    <3>. QED  BY <2>1, <2>2, <3>2, <3>3, <3>4 DEF Firm
  <2>. QED  BY <2>2, <2>5, <2>6
<1>6. ASSUME NEW t \in Tasks,
             \/ New(t) \/ Fork(t) \/ GrantCapability(t) \/ RevokeCapability(t) \/ Delegate(t)
             \/ AddTags(t) \/ AddNote(t) \/ Transition(t)
      PROVE  Firm'
  <2>1. Writing(t) /\ call' = call /\ firm' = firm
    BY <1>0, <1>6, RequestsWrite DEF history
  <2>. QED  BY <1>0, <2>1, WritingKeepsFirm DEF Firm
<1>7. ASSUME NEW t \in Tasks,
             \/ Decide(t) \/ RecordUsedKind(t) \/ RecordCapUse(t) \/ RunHandler(t)
             \/ HandlerRaises(t) \/ HandlerReturns(t) \/ ApplyInspectors(t) \/ PropagateTags(t)
      PROVE  Firm'
  <2>1. (Quiet \/ Writing(t)) /\ Called(t) /\ firm' = firm
    BY <1>0, <1>7, CallsWrite DEF history
  <2>2. \A u \in Tasks \ {t} : call'[u] = call[u]
    BY <1>0, <2>1 DEF Called, TypeOK
  <2>3. call'[t] # None => firm[call'[t].session] \subseteq call'[t].snapshot.revoked
    <3>1. SUFFICES ASSUME call'[t] # None PROVE firm[call'[t].session] \subseteq call'[t].snapshot.revoked
      OBVIOUS
    <3>2. call'[t].session \in Sessions
      BY <2>1, <3>1 DEF Called, Call
    <3>. QED  BY <2>1, <3>1, <3>2 DEF Called, Firm, RevokedOf
  <2>4. CASE Quiet
    BY <2>1, <2>2, <2>3, <2>4 DEF Quiet, Firm
  <2>5. CASE Writing(t)
    BY <1>0, <2>1, <2>2, <2>3, <2>5, WritingKeepsFirm DEF Firm
  <2>. QED  BY <2>1, <2>4, <2>5
<1>. QED  BY <1>1, <1>2, <1>3, <1>4, <1>5, <1>6, <1>7 DEF Next

LEMMA FirmAlways == Spec => []Firm
BY FirmInit, FirmStep, StoredAlways, PTL DEF Spec

\* In every session, whatever writes overlap later and however often the daemon restarts,
\* a revocation that met no other write or call when it was reported done stops the calls
\* on that capability and on those delegated from it: neither a later write nor the
\* inspectors' copy of a snapshot brings the capability back.
THEOREM RevocationStopsCallsAlways == Spec => RevocationStopsCalls
<1>1. ASSUME Stored, Firm, [Next]_vars, NEW t \in Tasks, Decides(t),
             NEW k \in Chain(call'[t].snapshot.caps, call'[t].cap)
      PROVE  k.id \notin firm[call'[t].session]
  <2>1. TypeOK
    BY <1>1 DEF Stored
  <2>2. Decide(t)
    BY <1>1, <2>1, OnlyDecideDecides
  <2>3. PICK s \in Sessions : memory[s] # None /\ \E cap \in memory[s].caps :
          /\ Allows(memory[s], cap)
          /\ call' = [call EXCEPT ![t] =
                 [session |-> s, snapshot |-> memory[s], cap |-> cap, step |-> "kind",
                  todo |-> ToCharge(memory[s], cap), raised |-> {}, tags |-> {}]]
    BY <2>2 DEF Decide
  <2>4. PICK cap \in memory[s].caps :
          /\ Allows(memory[s], cap)
          /\ call' = [call EXCEPT ![t] =
                 [session |-> s, snapshot |-> memory[s], cap |-> cap, step |-> "kind",
                  todo |-> ToCharge(memory[s], cap), raised |-> {}, tags |-> {}]]
    BY <2>3
  <2>5. call'[t].session = s /\ call'[t].snapshot = memory[s] /\ call'[t].cap = cap
    BY <2>1, <2>4 DEF TypeOK
  <2>6. firm[s] \subseteq memory[s].revoked
    BY <1>1, <2>3 DEF Firm, RevokedOf
  <2>7. k.id \notin memory[s].revoked
    BY <1>1, <2>4, <2>5 DEF Allows, IsCascadedInert
  <2>. QED  BY <2>5, <2>6, <2>7
<1>2. Stored /\ Firm /\ [Next]_vars =>
        [\A t \in Tasks :
           Decides(t) => \A k \in Chain(call'[t].snapshot.caps, call'[t].cap) :
                           k.id \notin firm[call'[t].session]]_vars
  BY <1>1
<1>. QED  BY <1>2, StoredAlways, FirmAlways, PTL DEF Spec, RevocationStopsCalls

-----------------------------------------------------------------------------
\* The capabilities that were made, and who holds them.

HeldBy(set) ==
  /\ \A s \in Sessions : Held(memory[s]) \subseteq set /\ Held(disk[s]) \subseteq set
  /\ \A t \in Writes : Held(write[t].copy) \subseteq set

LEMMA EverywhereIsHeld == Everywhere \subseteq minted <=> HeldBy(minted)
<1>. DEFINE inMemory == UNION {Held(memory[s]) : s \in Sessions}
            onDisk == UNION {Held(disk[s]) : s \in Sessions}
            underWay == UNION {Held(write[t].copy) : t \in Writes}
<1>1. inMemory \subseteq minted <=> \A s \in Sessions : Held(memory[s]) \subseteq minted
  OBVIOUS
<1>2. onDisk \subseteq minted <=> \A s \in Sessions : Held(disk[s]) \subseteq minted
  OBVIOUS
<1>3. underWay \subseteq minted <=> \A t \in Writes : Held(write[t].copy) \subseteq minted
  OBVIOUS
<1>4. Everywhere = inMemory \cup onDisk \cup underWay
  BY DEF Everywhere
<1>. HIDE DEF inMemory, onDisk, underWay
<1>. QED  BY <1>1, <1>2, <1>3, <1>4 DEF HeldBy

LEMMA EverywhereIsHeldNext == HeldBy(minted)' => (Everywhere \subseteq minted)'
BY EverywhereIsHeld, PTL

Pedigree ==
  /\ \A c, d \in minted : c.id = d.id => c = d
  /\ \A c, d \in minted : c.parent = d.id => Narrows(c, d)
  /\ \A c \in minted : c.parent # None => c.parent \in MintedIds

\* A capability is made under a fresh id, from nothing or from one that was made.
Mints(cap) ==
  /\ cap \in Capability
  /\ minted' = minted \cup {cap}
  /\ cap \in minted \/ cap.id \notin MintedIds
  /\ cap.parent = None \/ \E d \in minted : cap.parent = d.id /\ Narrows(cap, d)

LEMMA MintKeepsPedigree ==
  ASSUME TypeOK, Pedigree, NEW cap, Mints(cap)
  PROVE  Pedigree'
<1>1. CASE cap \in minted
  <2>1. minted' = minted
    BY <1>1 DEF Mints
  <2>. QED  BY <2>1 DEF Pedigree, MintedIds
<1>2. CASE cap \notin minted
  <2>1. cap.id \notin MintedIds /\ cap \in Capability /\ minted' = minted \cup {cap}
    BY <1>2 DEF Mints
  <2>2. MintedIds' = MintedIds \cup {cap.id} /\ cap.id # None /\ \A c \in minted : c.id \in MintedIds
    BY <2>1, GraphAssumption DEF MintedIds, Capability
  <2>3. \A c, d \in minted' : c.id = d.id => c = d
    BY <2>1, <2>2 DEF Pedigree
  <2>4. \A c \in minted' : c.parent # None => c.parent \in MintedIds
    BY <2>1, <2>2 DEF Pedigree, Mints
  <2>5. ASSUME NEW c \in minted', NEW d \in minted', c.parent = d.id
        PROVE  Narrows(c, d)
    <3>1. d \in minted
      <4>1. c.parent # None
        BY <2>1, <2>5, GraphAssumption DEF TypeOK, Capability
      <4>. QED  BY <2>1, <2>4, <2>5, <4>1
    <3>2. CASE c \in minted
      BY <2>5, <3>1, <3>2 DEF Pedigree
    <3>3. CASE c = cap
      <4>1. cap.parent # None
        BY <2>5, <3>1, <3>3, GraphAssumption DEF TypeOK, Capability
      <4>2. PICK e \in minted : cap.parent = e.id /\ Narrows(cap, e)
        BY <4>1 DEF Mints
      <4>3. e = d
        BY <2>5, <3>1, <3>3, <4>2 DEF Pedigree
      <4>. QED  BY <3>3, <4>2, <4>3
    <3>. QED  BY <2>1, <3>2, <3>3
  <2>. QED  BY <2>2, <2>3, <2>4, <2>5 DEF Pedigree, Narrows
<1>. QED  BY <1>1, <1>2

LEMMA GrantMints ==
  ASSUME NEW t \in Tasks, GrantCapability(t)
  PROVE  \E cap : Mints(cap)
<1>1. PICK s \in Sessions, id \in Ids, kind \in Kinds, revokedBy \in SUBSET Kinds :
        LET cap == [id |-> id, kind |-> kind, parent |-> None, depth |-> 0, limit |-> None,
                    revokedBy |-> revokedBy]
        IN  (Fresh(id) \/ cap \in minted) /\ minted' = minted \cup {cap}
  BY DEF GrantCapability
<1>. DEFINE cap == [id |-> id, kind |-> kind, parent |-> None, depth |-> 0, limit |-> None,
                    revokedBy |-> revokedBy]
<1>2. cap \in Capability /\ cap.id = id /\ cap.parent = None
  BY DEF Capability
<1>3. (Fresh(id) \/ cap \in minted) /\ minted' = minted \cup {cap}
  BY <1>1
<1>. HIDE DEF cap
<1>4. Mints(cap)
  BY <1>2, <1>3 DEF Mints, Fresh, MintedIds
<1>. QED  BY <1>4

LEMMA DelegateMints ==
  ASSUME TypeOK, HeldBy(minted), NEW t \in Tasks, Delegate(t)
  PROVE  \E cap : Mints(cap)
<1>1. PICK from \in Sessions, to \in Sessions, id \in Ids, limit \in Limits \cup {None},
           revokedBy \in SUBSET Kinds :
        /\ memory[from] # None
        /\ Fresh(id)
        /\ \E parent \in memory[from].caps :
             /\ parent.depth + 1 <= MaxDepth
             /\ AtMost(limit, parent.limit)
             /\ minted' = minted \cup {Delegated(parent, id, limit, revokedBy)}
  BY DEF Delegate
<1>2. PICK parent \in memory[from].caps :
        /\ parent.depth + 1 <= MaxDepth
        /\ AtMost(limit, parent.limit)
        /\ minted' = minted \cup {Delegated(parent, id, limit, revokedBy)}
  BY <1>1
<1>. DEFINE cap == Delegated(parent, id, limit, revokedBy)
<1>3. parent \in Capability /\ parent \in minted
  BY <1>1 DEF TypeOK, Record, HeldBy, Held
<1>4. /\ cap \in Capability /\ cap.id = id /\ cap.parent = parent.id
      /\ cap.kind = parent.kind /\ cap.depth = parent.depth + 1 /\ cap.limit = limit
      /\ parent.revokedBy \subseteq cap.revokedBy
  BY <1>3, GraphAssumption DEF Capability, Delegated
<1>. HIDE DEF cap
<1>5. Narrows(cap, parent)
  BY <1>2, <1>4 DEF Narrows, AtMost
<1>6. minted' = minted \cup {cap}
  BY <1>2 DEF cap
<1>7. Mints(cap)
  BY <1>1, <1>3, <1>4, <1>5, <1>6 DEF Mints, Fresh, MintedIds
<1>. QED  BY <1>7

\* A write under way holds what its start held, and what it grants.
LEMMA WritingKeepsHeld ==
  ASSUME StoreType, HeldBy(minted), minted \subseteq minted', NEW t \in Tasks,
         call[t] # None => call[t].snapshot.caps \subseteq minted,
         Writing(t)
  PROVE  HeldBy(minted)'
<1>1. ASSUME NEW s, NEW base, NEW ch, Began(t, s, base, ch)
      PROVE  HeldBy(minted)'
  <2>. DEFINE w == [session |-> s, copy |-> Apply(ch, base), change |-> ch, saved |-> FALSE]
  <2>1. ChangeFacts(ch, base, Apply(ch, base)) /\ ch \in Changes
    BY <1>1, ApplyFacts DEF Began
  <2>2. w \in Write /\ w.copy = Apply(ch, base)
    BY <1>1, <2>1 DEF Write, Began, ChangeFacts
  <2>3. write' = [write EXCEPT ![t] = w] /\ UNCHANGED <<memory, disk>>
    BY <1>1 DEF Began, Begin
  <2>. HIDE DEF w
  <2>4. base.caps \subseteq minted
    BY <1>1 DEF Began, HeldBy, Held
  <2>5. w.copy.caps \subseteq minted'
    BY <1>1, <2>1, <2>2, <2>4 DEF ChangeFacts, Began
  <2>0. w \in Write \cup {None}
    BY <2>2
  <2>6. write'[t] = w /\ \A u \in Tasks \ {t} : write'[u] = write[u]
    BY <2>0, <2>3 DEF StoreType
  <2>. QED  BY <2>3, <2>5, <2>6 DEF HeldBy, Held, Writes
<1>2. ASSUME NEW s, NEW r, Created(t, s, r)
      PROVE  HeldBy(minted)'
  <2>. DEFINE w == [session |-> s, copy |-> r, change |-> Change("create", r), saved |-> FALSE]
  <2>1. Change("create", r) \in Changes
    BY <1>2 DEF Changes, Change, Created
  <2>2. w \in Write /\ w.copy = r
    BY <1>2, <2>1 DEF Write, Created
  <2>3. write' = [write EXCEPT ![t] = w] /\ UNCHANGED <<memory, disk>>
    BY <1>2 DEF Created, Create
  <2>. HIDE DEF w
  <2>4. r.caps \subseteq minted'
    BY <1>2 DEF Created, HeldBy, Held
  <2>0. w \in Write \cup {None}
    BY <2>2
  <2>5. write'[t] = w /\ \A u \in Tasks \ {t} : write'[u] = write[u]
    BY <2>0, <2>3 DEF StoreType
  <2>. QED  BY <2>2, <2>3, <2>4, <2>5 DEF HeldBy, Held, Writes
<1>. QED  BY <1>1, <1>2 DEF Writing

Snapshots == \A t \in Tasks : call[t] # None => call[t].snapshot.caps \subseteq minted

LEMMA LineageParts == Lineage <=> HeldBy(minted) /\ Snapshots /\ Pedigree
BY EverywhereIsHeld DEF Lineage, Snapshots, Pedigree

LEMMA LineagePartsNext == HeldBy(minted)' /\ Snapshots' /\ Pedigree' => Lineage'
BY LineageParts, PTL

LEMMA LineageInit == Init => Lineage
<1>. SUFFICES ASSUME Init PROVE Lineage
  OBVIOUS
<1>1. PICK id \in Ids, kind \in Kinds, limit \in Limits, forked \in SUBSET (Sessions \ {Root}) :
        LET cap == [id |-> id, kind |-> kind, parent |-> None, depth |-> 0, limit |-> limit,
                    revokedBy |-> {}]
        IN  /\ memory = [s \in Sessions |->
                       IF s = Root THEN NewSession({cap}, {}, {}, None)
                       ELSE IF s \in forked THEN NewSession({cap}, {}, {}, Root) ELSE None]
            /\ minted = {cap}
  BY DEF Init
<1>. DEFINE cap == [id |-> id, kind |-> kind, parent |-> None, depth |-> 0, limit |-> limit,
                    revokedBy |-> {}]
<1>2. cap \in Capability /\ cap.parent = None /\ cap.id = id
  BY GraphAssumption DEF Capability
<1>. HIDE DEF cap
<1>3. /\ memory = [s \in Sessions |->
                     IF s = Root THEN NewSession({cap}, {}, {}, None)
                     ELSE IF s \in forked THEN NewSession({cap}, {}, {}, Root) ELSE None]
      /\ minted = {cap}
  BY <1>1 DEF cap
<1>4. NewSession({cap}, {}, {}, None).caps = {cap} /\ NewSession({cap}, {}, {}, Root).caps = {cap}
  BY <1>2, NewSessionType, GraphAssumption
<1>5. \A s \in Sessions : Held(memory[s]) \subseteq minted
  BY <1>3, <1>4 DEF Held
<1>6. disk = memory /\ write = [t \in Tasks |-> None] /\ call = [t \in Tasks |-> None]
  BY DEF Init
<1>7. HeldBy(minted) /\ Snapshots
  BY <1>5, <1>6 DEF HeldBy, Snapshots, Writes
<1>8. Pedigree
  BY <1>2, <1>3, GraphAssumption DEF Pedigree, MintedIds
<1>. QED  BY <1>7, <1>8, LineageParts

LEMMA LineageStep == Stored /\ Lineage /\ [Next]_vars => Lineage'
<1>. SUFFICES ASSUME Stored, Lineage, [Next]_vars PROVE Lineage'
  OBVIOUS
<1>0. /\ HeldBy(minted) /\ Snapshots /\ Pedigree /\ TypeOK /\ Present /\ StoreType
  BY LineageParts, StoredParts DEF Stored, StoreInv
<1>1. CASE UNCHANGED vars
  BY <1>0, <1>1, LineagePartsNext DEF vars, HeldBy, Snapshots, Pedigree, Writes, MintedIds
<1>2. CASE Restart
  BY <1>0, <1>2, LineagePartsNext DEF Restart, HeldBy, Snapshots, Pedigree, Writes, MintedIds
<1>6. ASSUME NEW t \in Tasks, SaveRaises(t)
      PROVE  Lineage'
  <2>1. /\ UNCHANGED <<memory, disk, minted>>
        /\ \A u \in Tasks : (write'[u] # None => write'[u] = write[u]) /\ (call'[u] # None => call'[u] = call[u])
    BY <1>0, <1>6 DEF SaveRaises, TypeOK
  <2>. QED  BY <1>0, <2>1, LineagePartsNext DEF HeldBy, Snapshots, Pedigree, Writes, MintedIds
<1>3. ASSUME NEW t \in Tasks, Save(t) \/ Publish(t)
      PROVE  Lineage'
  <2>1. UNCHANGED <<call, minted>>
    BY <1>3 DEF Save, Publish, PutIntoMemory
  <2>2. write[t] # None /\ write[t].session \in Sessions /\ Held(write[t].copy) \subseteq minted
    BY <1>0, <1>3 DEF Save, Publish, HeldBy, Writes, TypeOK, Write
  <2>3. CASE Save(t)
    <3>1. \A u \in Tasks : write'[u] # None => write[u] # None /\ write'[u].copy = write[u].copy
      BY <1>0, <2>3 DEF Save, TypeOK, Write
    <3>2. memory' = memory /\ \A s \in Sessions : disk'[s] \in {disk[s], write[t].copy}
      BY <1>0, <2>3 DEF Save, TypeOK
    <3>. QED  BY <1>0, <2>1, <2>2, <3>1, <3>2, LineagePartsNext
              DEF HeldBy, Snapshots, Pedigree, Writes, MintedIds
  <2>4. CASE Publish(t)
    <3>1. \A u \in Tasks : write'[u] # None => write'[u] = write[u]
      BY <1>0, <2>4 DEF Publish, PutIntoMemory, TypeOK
    <3>2. disk' = disk /\ \A s \in Sessions : memory'[s] \in {memory[s], write[t].copy}
      BY <1>0, <2>4 DEF Publish, PutIntoMemory, TypeOK
    <3>. QED  BY <1>0, <2>1, <2>2, <3>1, <3>2, LineagePartsNext
              DEF HeldBy, Snapshots, Pedigree, Writes, MintedIds
  <2>. QED  BY <1>3, <2>3, <2>4
<1>4. ASSUME NEW t \in Tasks,
             \/ New(t) \/ Fork(t) \/ GrantCapability(t) \/ RevokeCapability(t) \/ Delegate(t)
             \/ AddTags(t) \/ AddNote(t) \/ Transition(t)
      PROVE  Lineage'
  <2>1. Writing(t) /\ UNCHANGED call
    BY <1>0, <1>4, RequestsWrite
  <2>2. CASE UNCHANGED minted
    <3>1. HeldBy(minted)'
      BY <1>0, <2>1, <2>2, WritingKeepsHeld DEF Snapshots
    <3>. QED  BY <1>0, <2>1, <2>2, <3>1, LineagePartsNext DEF Snapshots, Pedigree, MintedIds
  <2>3. ASSUME NEW cap, Mints(cap)
        PROVE  Lineage'
    <3>1. Pedigree' /\ minted \subseteq minted'
      BY <1>0, <2>3, MintKeepsPedigree DEF Mints
    <3>2. HeldBy(minted)'
      BY <1>0, <2>1, <3>1, WritingKeepsHeld DEF Snapshots
    <3>. QED  BY <1>0, <2>1, <3>1, <3>2, LineagePartsNext DEF Snapshots
  <2>4. UNCHANGED minted \/ GrantCapability(t) \/ Delegate(t)
    BY <1>4 DEF New, Fork, RevokeCapability, AddTags, AddNote, Transition
  <2>. QED  BY <1>0, <2>2, <2>3, <2>4, GrantMints, DelegateMints
<1>5. ASSUME NEW t \in Tasks,
             \/ Decide(t) \/ RecordUsedKind(t) \/ RecordCapUse(t) \/ RunHandler(t)
             \/ HandlerRaises(t) \/ HandlerReturns(t) \/ ApplyInspectors(t) \/ PropagateTags(t)
      PROVE  Lineage'
  <2>1. (Quiet \/ Writing(t)) /\ Called(t) /\ minted' = minted
    BY <1>0, <1>5, CallsWrite
  <2>2. Pedigree'
    BY <1>0, <2>1 DEF Pedigree, MintedIds
  <2>3. HeldBy(minted)'
    <3>1. CASE Quiet
      BY <1>0, <2>1, <3>1 DEF Quiet, HeldBy, Writes
    <3>2. CASE Writing(t)
      BY <1>0, <2>1, <3>2, WritingKeepsHeld DEF Snapshots
    <3>. QED  BY <2>1, <3>1, <3>2
  <2>4. Snapshots'
    <3>1. \A u \in Tasks \ {t} : call'[u] = call[u]
      BY <1>0, <2>1 DEF Called, TypeOK
    <3>2. call'[t] # None => call'[t].snapshot.caps \subseteq minted
      BY <1>0, <2>1 DEF Called, Snapshots, HeldBy, Held, Call
    <3>. QED  BY <1>0, <2>1, <3>1, <3>2 DEF Snapshots
  <2>. QED  BY <2>2, <2>3, <2>4, LineagePartsNext
<1>. QED  BY <1>1, <1>2, <1>3, <1>4, <1>5, <1>6 DEF Next

LEMMA LineageAlways == Spec => []Lineage
BY LineageInit, LineageStep, StoredAlways, PTL DEF Spec

\* However requests interleave, are lost in a restart and repeated, what the sessions hold
\* of a delegation chain only narrows from parent to child.
THEOREM DelegationAttenuatesAlways == Spec => []DelegationAttenuates
<1>1. Lineage => DelegationAttenuates
  BY DEF Lineage, Narrows, DelegationAttenuates
<1>. QED  BY <1>1, LineageAlways, PTL

-----------------------------------------------------------------------------
\* What the calls charge.

CallCharges(t) ==
  call[t] # None =>
    /\ call[t].cap \in call[t].snapshot.caps
    /\ call[t].todo \subseteq Chain(call[t].snapshot.caps, call[t].cap)
    /\ call[t].step = "kind" =>
         \A k \in Chain(call[t].snapshot.caps, call[t].cap) : k.limit # None => k \in call[t].todo

WriteCharges(t) ==
  write[t] # None =>
    /\ write[t].change.op = "create" =>
         memory[write[t].session] = None /\ write[t].copy.uses = [i \in Ids |-> 0]
    /\ write[t].change.op = "use" =>
         /\ call[t] # None /\ call[t].session = write[t].session /\ call[t].step = "charge"
         /\ \E k \in Chain(call[t].snapshot.caps, call[t].cap) : k.id = write[t].change.arg
         /\ \A k \in call[t].todo : k.id # write[t].change.arg

LEMMA ChargesParts == Charges <=> \A t \in Tasks : CallCharges(t) /\ WriteCharges(t)
BY DEF Charges, CallCharges, WriteCharges, Writes

LEMMA ChargesPartsNext == (\A t \in Tasks : CallCharges(t)' /\ WriteCharges(t)') => Charges'
BY DEF Charges, CallCharges, WriteCharges, Writes

\* A capability below one with a limit has a limit.
LEMMA LimitsGoDown ==
  ASSUME Pedigree, NEW caps \in SUBSET minted, NEW cap \in caps, NEW k \in Chain(caps, cap),
         k.limit # None
  PROVE  cap.limit # None
<1>. DEFINE set == {j \in caps : j.limit # None => cap.limit # None}
<1>1. cap \in set /\ set \in SUBSET caps
  OBVIOUS
<1>2. HasParents(set, caps)
  BY DEF HasParents, Pedigree, Narrows
<1>3. Chain(caps, cap) \subseteq set
  BY <1>1, <1>2, ChainInduction
<1>. QED  BY <1>3

\* Nothing but RecordCapUse writes a use.
NoUse(t) ==
  /\ \A u \in Tasks \ {t} : write'[u] = write[u]
  /\ write[t] = None
  /\ memory' = memory
  /\ write'[t] # None =>
       /\ write'[t].change.op # "use"
       /\ write'[t].change.op = "create" =>
            memory[write'[t].session] = None /\ write'[t].copy.uses = [i \in Ids |-> 0]

LEMMA MutateIsNoUse ==
  ASSUME TypeOK, NEW t \in Tasks, NEW s, NEW base, NEW op, NEW arg, op \notin {"create", "use"},
         write[t] = None, memory' = memory, Begin(t, s, base, Change(op, arg))
  PROVE  NoUse(t)
BY DEF Begin, Change, NoUse, TypeOK

LEMMA RequestsUseNothing ==
  ASSUME TypeOK, NEW t \in Tasks,
         \/ New(t) \/ Fork(t) \/ GrantCapability(t) \/ RevokeCapability(t) \/ Delegate(t)
         \/ AddTags(t) \/ AddNote(t) \/ Transition(t)
  PROVE  NoUse(t) /\ call[t] = None
<1>1. write[t] = None /\ call[t] = None /\ memory' = memory
  BY DEF Request, Idle, New, Fork, GrantCapability, RevokeCapability, Delegate, AddTags, AddNote,
     Transition
<1>2. ASSUME NEW s \in Sessions, NEW r, r.uses = [i \in Ids |-> 0], Create(t, s, r)
      PROVE  NoUse(t)
  BY <1>1, <1>2 DEF Create, Change, NoUse, TypeOK
<1>3. CASE New(t)
  <2>1. PICK s \in Sessions, p \in Sessions \cup {None} : Create(t, s, NewSession({}, {}, {}, p))
    BY <1>3 DEF New
  <2>2. NewSession({}, {}, {}, p).uses = [i \in Ids |-> 0]
    BY DEF NewSession
  <2>. QED  BY <1>1, <1>2, <2>1, <2>2
<1>4. CASE Fork(t)
  <2>1. PICK s \in Sessions, p \in Sessions : Create(t, s, ForkOf(memory[p], p))
    BY <1>4 DEF Fork
  <2>2. ForkOf(memory[p], p).uses = [i \in Ids |-> 0]
    BY DEF ForkOf, NewSession
  <2>. QED  BY <1>1, <1>2, <2>1, <2>2
<1>5. CASE GrantCapability(t) \/ Delegate(t)
  <2>0. \E s, arg : Mutate(t, s, Change("grant", arg))
    <3>1. CASE GrantCapability(t)
      BY <3>1 DEF GrantCapability
    <3>2. CASE Delegate(t)
      <4>1. PICK from \in Sessions, to \in Sessions, id \in Ids, limit \in Limits \cup {None},
                 revokedBy \in SUBSET Kinds :
              \E parent \in memory[from].caps :
                Mutate(t, to, Change("grant", Delegated(parent, id, limit, revokedBy)))
        BY <3>2 DEF Delegate
      <4>. QED  BY <4>1
    <3>. QED  BY <1>5, <3>1, <3>2
  <2>1. \E s, arg : Begin(t, s, memory[s], Change("grant", arg))
    BY <2>0 DEF Mutate
  <2>. QED  BY <1>1, <2>1, MutateIsNoUse
<1>6. CASE RevokeCapability(t)
  <2>1. \E s, arg, op : op \in {"revoke", "tear"} /\ Begin(t, s, memory[s], Change(op, arg))
    BY <1>6 DEF RevokeCapability, Mutate
  <2>. QED  BY <1>1, <2>1, MutateIsNoUse
<1>7. CASE AddTags(t) \/ AddNote(t) \/ Transition(t)
  <2>1. \E s, arg, op : op \in {"tags", "note", "status"} /\ Begin(t, s, memory[s], Change(op, arg))
    BY <1>7 DEF AddTags, AddNote, Transition, Mutate
  <2>. QED  BY <1>1, <2>1, MutateIsNoUse
<1>. QED  BY <1>1, <1>3, <1>4, <1>5, <1>6, <1>7

LEMMA CallsUseNothing ==
  ASSUME TypeOK, NEW t \in Tasks,
         \/ Decide(t) \/ RecordUsedKind(t) \/ RunHandler(t)
         \/ HandlerRaises(t) \/ HandlerReturns(t) \/ ApplyInspectors(t) \/ PropagateTags(t)
  PROVE  NoUse(t)
<1>1. write[t] = None /\ memory' = memory
  BY DEF Request, Idle, At, Decide, RecordUsedKind, RunHandler, HandlerRaises, HandlerReturns,
     ApplyInspectors, PropagateTags
<1>2. CASE UNCHANGED write
  BY <1>1, <1>2 DEF NoUse
<1>3. ASSUME NEW base, NEW op, NEW arg, op \notin {"create", "use"}, WriteOrSkip(t, base, Change(op, arg))
      PROVE  NoUse(t)
  BY <1>1, <1>2, <1>3, MutateIsNoUse DEF WriteOrSkip
<1>4. CASE RecordUsedKind(t)
  BY <1>3, <1>4 DEF RecordUsedKind
<1>5. CASE ApplyInspectors(t)
  BY <1>3, <1>5 DEF ApplyInspectors
<1>6. CASE PropagateTags(t)
  BY <1>3, <1>6 DEF PropagateTags
<1>. QED  BY <1>2, <1>4, <1>5, <1>6 DEF Decide, RunHandler, HandlerRaises, HandlerReturns

LEMMA ChargesInit == Init => Charges
BY DEF Init, Charges, Writes

\* A step of t that writes no use, and keeps what t's call owes.
LEMMA NoUseKeepsCharges ==
  ASSUME TypeOK, Charges, NEW t \in Tasks, NoUse(t),
         \A u \in Tasks \ {t} : call'[u] = call[u], CallCharges(t)'
  PROVE  Charges'
<1>1. ASSUME NEW u \in Tasks \ {t} PROVE CallCharges(u)' /\ WriteCharges(u)'
  <2>1. CallCharges(u) /\ WriteCharges(u) /\ call'[u] = call[u] /\ write'[u] = write[u]
        /\ memory' = memory
    BY ChargesParts DEF NoUse
  <2>. QED  BY <2>1 DEF CallCharges, WriteCharges
<1>2. WriteCharges(t)'
  BY DEF NoUse, WriteCharges
<1>. QED  BY <1>1, <1>2, ChargesPartsNext

LEMMA ChargesStep == Stored /\ Lineage /\ Charges /\ [Next]_vars => Charges'
<1>. SUFFICES ASSUME Stored, Lineage, Charges, [Next]_vars PROVE Charges'
  OBVIOUS
<1>0. /\ TypeOK /\ Present /\ Pedigree /\ Snapshots /\ StoreInv /\ HeldBy(minted)
      /\ \A t \in Tasks : CallCharges(t) /\ WriteCharges(t)
  BY LineageParts, StoredParts, ChargesParts DEF Stored
<1>1. CASE UNCHANGED vars
  BY <1>1 DEF vars, Charges, Writes
<1>2. CASE Restart
  BY <1>2 DEF Restart, Charges, Writes
<1>3. ASSUME NEW t \in Tasks, Save(t)
      PROVE  Charges'
  <2>1. UNCHANGED <<call, memory>>
    BY <1>3 DEF Save
  <2>2. \A u \in Tasks : write'[u] # None =>
          /\ write[u] # None /\ write'[u].change = write[u].change /\ write'[u].copy = write[u].copy
          /\ write'[u].session = write[u].session
    BY <1>0, <1>3 DEF Save, TypeOK, Write
  <2>3. ASSUME NEW u \in Tasks PROVE CallCharges(u)' /\ WriteCharges(u)'
    <3>1. CallCharges(u) /\ WriteCharges(u)
      BY <1>0
    <3>. QED  BY <2>1, <2>2, <3>1 DEF CallCharges, WriteCharges
  <2>. QED  BY <2>3, ChargesPartsNext
<1>9. ASSUME NEW t \in Tasks, SaveRaises(t)
      PROVE  Charges'
  <2>1. /\ UNCHANGED memory /\ write'[t] = None /\ call'[t] = None
        /\ \A u \in Tasks \ {t} : write'[u] = write[u] /\ call'[u] = call[u]
    BY <1>0, <1>9 DEF SaveRaises, TypeOK
  <2>2. ASSUME NEW u \in Tasks PROVE CallCharges(u)' /\ WriteCharges(u)'
    <3>1. CallCharges(u) /\ WriteCharges(u)
      BY <1>0
    <3>2. CASE u = t
      BY <2>1, <3>2 DEF CallCharges, WriteCharges
    <3>3. CASE u # t
      BY <2>1, <3>1, <3>3 DEF CallCharges, WriteCharges
    <3>. QED  BY <3>2, <3>3
  <2>. QED  BY <2>2, ChargesPartsNext
<1>4. ASSUME NEW t \in Tasks, Publish(t)
      PROVE  Charges'
  <2>. DEFINE s == write[t].session
  <2>1. /\ UNCHANGED call /\ write[t] # None /\ s \in Sessions /\ write'[t] = None
        /\ \A u \in Tasks \ {t} : write'[u] = write[u]
        /\ \A x \in Sessions \ {s} : memory'[x] = memory[x]
    BY <1>0, <1>4 DEF Publish, PutIntoMemory, TypeOK, Write
  <2>2. ASSUME NEW u \in Tasks \ {t}, write[u] # None, write[u].change.op = "create"
        PROVE  write[u].session # s
    <3>1. SUFFICES ASSUME write[u].session = s PROVE FALSE
      OBVIOUS
    <3>2. memory[s] = None
      BY <1>0, <2>2, <3>1 DEF WriteCharges
    <3>3. s \notin overlapped
      BY <1>0, <2>1, <3>2 DEF Present
    <3>4. t \in WritesOn(s) /\ u \in WritesOn(s)
      BY <2>1, <2>2, <3>1 DEF WritesOn, Writes
    <3>. QED  BY <1>0, <2>1, <3>3, <3>4 DEF StoreInv, Lone
  <2>3. ASSUME NEW u \in Tasks PROVE CallCharges(u)' /\ WriteCharges(u)'
    <3>1. CallCharges(u)'
      BY <1>0, <2>1 DEF CallCharges
    <3>2. CASE u = t
      BY <2>1, <3>1, <3>2 DEF WriteCharges
    <3>3. CASE u # t
      <4>1. WriteCharges(u) /\ write'[u] = write[u] /\ (write[u] # None => write[u].session \in Sessions)
        BY <1>0, <2>1, <3>3 DEF TypeOK, Write
      <4>. QED  BY <2>1, <2>2, <3>1, <3>3, <4>1 DEF WriteCharges
    <3>. QED  BY <3>2, <3>3
  <2>. QED  BY <2>3, ChargesPartsNext
<1>5. ASSUME NEW t \in Tasks,
             \/ New(t) \/ Fork(t) \/ GrantCapability(t) \/ RevokeCapability(t) \/ Delegate(t)
             \/ AddTags(t) \/ AddNote(t) \/ Transition(t)
      PROVE  Charges'
  <2>1. NoUse(t) /\ call' = call
    BY <1>0, <1>5, RequestsUseNothing, RequestsWrite
  <2>2. CallCharges(t)'
    BY <1>0, <2>1 DEF CallCharges
  <2>. QED  BY <1>0, <2>1, <2>2, NoUseKeepsCharges
<1>6. ASSUME NEW t \in Tasks, Decide(t)
      PROVE  Charges'
  <2>1. PICK s \in Sessions : memory[s] # None /\ \E cap \in memory[s].caps :
          call' = [call EXCEPT ![t] =
                 [session |-> s, snapshot |-> memory[s], cap |-> cap, step |-> "kind",
                  todo |-> ToCharge(memory[s], cap), raised |-> {}, tags |-> {}]]
    BY <1>6 DEF Decide
  <2>2. PICK cap \in memory[s].caps :
          call' = [call EXCEPT ![t] =
                 [session |-> s, snapshot |-> memory[s], cap |-> cap, step |-> "kind",
                  todo |-> ToCharge(memory[s], cap), raised |-> {}, tags |-> {}]]
    BY <2>1
  <2>3. /\ \A u \in Tasks \ {t} : call'[u] = call[u]
        /\ call'[t].snapshot = memory[s] /\ call'[t].cap = cap
        /\ call'[t].todo = ToCharge(memory[s], cap)
    BY <1>0, <2>2 DEF TypeOK
  <2>4. memory[s].caps \in SUBSET minted
    BY <1>0, <2>1 DEF HeldBy, Held
  <2>5. /\ ToCharge(memory[s], cap) \subseteq Chain(memory[s].caps, cap)
        /\ \A k \in Chain(memory[s].caps, cap) : k.limit # None => k \in ToCharge(memory[s], cap)
    BY <1>0, <2>4, LimitsGoDown DEF ToCharge
  <2>6. CallCharges(t)'
    BY <2>3, <2>5 DEF CallCharges
  <2>7. NoUse(t)
    BY <1>0, <1>6, CallsUseNothing
  <2>. QED  BY <1>0, <2>3, <2>6, <2>7, NoUseKeepsCharges
<1>7. ASSUME NEW t \in Tasks,
             \/ RecordUsedKind(t) \/ RunHandler(t)
             \/ HandlerRaises(t) \/ HandlerReturns(t) \/ ApplyInspectors(t) \/ PropagateTags(t)
      PROVE  Charges'
  <2>1. NoUse(t)
    BY <1>0, <1>7, CallsUseNothing
  <2>2. /\ call[t] # None /\ call[t] \in Call
        /\ \A u \in Tasks \ {t} : call'[u] = call[u]
    BY <1>0, <1>7 DEF TypeOK, At, RecordUsedKind, RunHandler, HandlerRaises, HandlerReturns,
       ApplyInspectors, PropagateTags
  <2>3. call'[t] # None =>
          /\ call'[t].snapshot = call[t].snapshot /\ call'[t].cap = call[t].cap
          /\ call'[t].todo = call[t].todo /\ call'[t].step # "kind"
    <3>1. CASE \E step : step # "kind" /\ call' = [call EXCEPT ![t].step = step]
      BY <1>0, <2>2, <3>1 DEF TypeOK, Call
    <3>2. CASE HandlerReturns(t)
      <4>1. PICK raised, tags :
              call' = [call EXCEPT ![t].step = "inspect", ![t].raised = raised, ![t].tags = tags]
        BY <3>2 DEF HandlerReturns
      <4>2. call'[t] = [call[t] EXCEPT !.step = "inspect", !.raised = raised, !.tags = tags]
        BY <1>0, <4>1 DEF TypeOK
      <4>. QED  BY <2>2, <4>2 DEF Call
    <3>3. CASE call' = [call EXCEPT ![t] = None]
      BY <1>0, <3>3 DEF TypeOK
    <3>4. CASE RecordUsedKind(t)
      BY <3>1, <3>4 DEF RecordUsedKind
    <3>5. CASE RunHandler(t)
      BY <3>1, <3>5 DEF RunHandler
    <3>6. CASE ApplyInspectors(t)
      BY <3>1, <3>6 DEF ApplyInspectors
    <3>. QED  BY <1>7, <3>2, <3>3, <3>4, <3>5, <3>6 DEF HandlerRaises, PropagateTags
  <2>4. CallCharges(t)'
    BY <1>0, <2>2, <2>3 DEF CallCharges
  <2>. QED  BY <1>0, <2>1, <2>2, <2>4, NoUseKeepsCharges
<1>8. ASSUME NEW t \in Tasks, RecordCapUse(t)
      PROVE  Charges'
  <2>1. PICK k \in call[t].todo :
          /\ Begin(t, call[t].session, memory[call[t].session], Change("use", k.id))
          /\ call' = [call EXCEPT ![t].todo = @ \ {k}]
    BY <1>8 DEF RecordCapUse
  <2>2. /\ call[t] # None /\ call[t] \in Call /\ call[t].step = "charge" /\ memory' = memory
    BY <1>0, <1>8 DEF RecordCapUse, At, TypeOK
  <2>3. /\ \A u \in Tasks \ {t} : call'[u] = call[u] /\ write'[u] = write[u]
        /\ call'[t].snapshot = call[t].snapshot /\ call'[t].cap = call[t].cap
        /\ call'[t].todo = call[t].todo \ {k} /\ call'[t].step = "charge"
        /\ call'[t].session = call[t].session
    BY <1>0, <2>1, <2>2 DEF TypeOK, Call, Begin
  <2>4. call'[t] # None
    <3>1. call'[t] = [call[t] EXCEPT !.todo = @ \ {k}]
      BY <1>0, <2>1 DEF TypeOK
    <3>2. call'[t] \in Call
      BY <2>2, <3>1 DEF Call
    <3>. QED  BY <3>2, NoneIsNoRecord
  <2>5. /\ write'[t].change.op = "use" /\ write'[t].change.arg = k.id
        /\ write'[t].session = call[t].session
    BY <1>0, <2>1 DEF Begin, Change, TypeOK
  <2>6. /\ call[t].todo \subseteq Chain(call[t].snapshot.caps, call[t].cap)
        /\ call[t].cap \in call[t].snapshot.caps
        /\ call[t].snapshot.caps \subseteq minted
    BY <1>0, <2>2 DEF CallCharges, Snapshots
  <2>7. call[t].todo \subseteq minted
    BY <2>6, ChainFacts
  <2>8. \A j \in call[t].todo \ {k} : j.id # k.id
    BY <1>0, <2>7 DEF Pedigree
  <2>9. CallCharges(t)' /\ WriteCharges(t)'
    BY <2>2, <2>3, <2>4, <2>5, <2>6, <2>8 DEF CallCharges, WriteCharges
  <2>10. ASSUME NEW u \in Tasks \ {t} PROVE CallCharges(u)' /\ WriteCharges(u)'
    <3>1. CallCharges(u) /\ WriteCharges(u)
      BY <1>0
    <3>. QED  BY <2>2, <2>3, <3>1 DEF CallCharges, WriteCharges
  <2>. QED  BY <2>9, <2>10, ChargesPartsNext
<1>. QED  BY <1>1, <1>2, <1>3, <1>4, <1>5, <1>6, <1>7, <1>8, <1>9 DEF Next

-----------------------------------------------------------------------------
\* The accounts.

LEMMA AccountsPartsNext ==
  Unused' /\ (\A s \in Sessions, c \in minted' : Account(s, c)') => Accounts'
BY DEF Accounts, Unused, Account

LEMMA TasksCount == Cardinality(Tasks) \in Nat /\ Cardinality(Tasks) > 0
BY FS_CardinalityType, FS_EmptySet, GraphAssumption

LEMMA Counts ==
  ASSUME NEW set \in SUBSET Tasks
  PROVE  IsFiniteSet(set) /\ Cardinality(set) \in Nat /\ Cardinality(set) <= Cardinality(Tasks)
BY FS_Subset, FS_CardinalityType, GraphAssumption

LEMMA CountStep ==
  ASSUME NEW S \in SUBSET Tasks, NEW T \in SUBSET Tasks, NEW t, \A u \in Tasks \ {t} : u \in S <=> u \in T
  PROVE  /\ (t \in S <=> t \in T) => S = T
         /\ t \notin S /\ t \in T => Cardinality(T) = Cardinality(S) + 1
         /\ t \in S /\ t \notin T => Cardinality(S) = Cardinality(T) + 1
<1>1. IsFiniteSet(S) /\ IsFiniteSet(T)
  BY Counts
<1>2. (t \in S <=> t \in T) => S = T
  OBVIOUS
<1>3. CASE t \notin S /\ t \in T
  <2>1. T = S \cup {t}
    BY <1>3
  <2>. QED  BY <1>1, <1>3, <2>1, FS_AddElement
<1>4. CASE t \in S /\ t \notin T
  <2>1. S = T \cup {t}
    BY <1>4
  <2>. QED  BY <1>1, <1>4, <2>1, FS_AddElement
<1>. QED  BY <1>2, <1>3, <1>4

Memberships(t, s, i) ==
  /\ Owing(s, i) \in SUBSET Tasks /\ Owing(s, i)' \in SUBSET Tasks
  /\ Paid(s, i) \in SUBSET Tasks /\ Paid(s, i)' \in SUBSET Tasks
  /\ \A u \in Tasks \ {t} : u \in Owing(s, i) <=> u \in Owing(s, i)'
  /\ \A u \in Tasks \ {t} : u \in Paid(s, i) <=> u \in Paid(s, i)'

LEMMA OthersStay ==
  ASSUME NEW t, NEW s, NEW i, \A u \in Tasks \ {t} : call'[u] = call[u] /\ write'[u] = write[u]
  PROVE  Memberships(t, s, i)
BY DEF Memberships, Owing, Paid, Decided, Charging

\* A step that moves nobody between owing, paid and done keeps the account.
LEMMA AccountKept ==
  ASSUME NEW t, NEW s, NEW c, Memberships(t, s, c.id), Account(s, c),
         t \in Owing(s, c.id) <=> t \in Owing(s, c.id)',
         t \in Paid(s, c.id) <=> t \in Paid(s, c.id)',
         memory'[s] = memory[s], ran'[s][c.id] = ran[s][c.id], lost'[s][c.id] = lost[s][c.id]
  PROVE  Account(s, c)'
<1>. DEFINE o == Owing(s, c.id)
            p == Paid(s, c.id)
<1>1. o' = o
  <2>1. o \in SUBSET Tasks /\ o' \in SUBSET Tasks /\ \A u \in Tasks \ {t} : u \in o <=> u \in o'
    BY DEF Memberships
  <2>2. t \in o <=> t \in o'
    OBVIOUS
  <2>. HIDE DEF o
  <2>. QED  BY <2>1, <2>2
<1>2. p' = p
  <2>1. p \in SUBSET Tasks /\ p' \in SUBSET Tasks /\ \A u \in Tasks \ {t} : u \in p <=> u \in p'
    BY DEF Memberships
  <2>2. t \in p <=> t \in p'
    OBVIOUS
  <2>. HIDE DEF p
  <2>. QED  BY <2>1, <2>2
<1>. QED  BY <1>1, <1>2 DEF Account

LEMMA OverlappedGrows ==
  ASSUME TypeOK, Present, [Next]_vars
  PROVE  overlapped \subseteq overlapped'
<1>1. CASE UNCHANGED vars
  BY <1>1 DEF vars
<1>2. CASE Restart
  BY <1>2 DEF Restart
<1>3. ASSUME NEW t \in Tasks, Quiet \/ Writing(t) PROVE overlapped \subseteq overlapped'
  BY <1>3 DEF Quiet, Writing, Began, Begin, Created, Create
<1>4. ASSUME NEW t \in Tasks, Save(t) \/ SaveRaises(t) \/ Publish(t) PROVE overlapped \subseteq overlapped'
  BY <1>4 DEF Save, SaveRaises, Publish, PutIntoMemory
<1>. QED  BY <1>1, <1>2, <1>3, <1>4, RequestsWrite, CallsWrite DEF Next

\* What the one write under way makes of the uses.
LEMMA LoneWriteUses ==
  ASSUME Stored, Charges, NEW s \in Sessions \ overlapped, NEW t \in WritesOn(s), NEW i \in Ids
  PROVE  /\ memory[s] # None =>
              /\ memory[s].uses[i] \in Nat
              /\ Charging(t, i) => write[t].copy.uses[i] = memory[s].uses[i] + 1
              /\ ~Charging(t, i) => write[t].copy.uses[i] = memory[s].uses[i]
         /\ memory[s] = None => write[t].copy.uses[i] = 0
<1>. DEFINE ch == write[t].change
<1>1. /\ t \in Tasks /\ write[t] # None /\ write[t] \in Write /\ ch \in Changes
      /\ write[t].session = s
  BY DEF WritesOn, Writes, Stored, TypeOK, Write
<1>2. WriteCharges(t)
  BY <1>1, ChargesParts
<1>3. memory[s] \in Record \cup {None} /\ (memory[s] = None => ch.op = "create")
  BY <1>1 DEF Stored, TypeOK, Present, Writes
<1>4. write[t].copy = Apply(ch, memory[s])
  BY DEF Stored, Lone
<1>5. CASE memory[s] = None
  BY <1>1, <1>2, <1>3, <1>5 DEF WriteCharges
<1>6. CASE memory[s] # None
  <2>1. ch.op # "create"
    BY <1>1, <1>2, <1>6 DEF WriteCharges
  <2>2. ChangeFacts(ch, memory[s], write[t].copy)
    BY <1>1, <1>3, <1>4, <1>6, ApplyFacts
  <2>3. memory[s].uses \in [Ids -> Nat]
    BY <1>3, <1>6 DEF Record
  <2>4. CASE ch.op = "use"
    <3>1. ch \in [op : {"use"}, arg : Ids]
      BY <1>1, <2>4 DEF Changes
    <3>2. Charging(t, i) <=> ch.arg = i
      BY <1>1, <3>1 DEF Charging, Change
    <3>3. write[t].copy.uses = [memory[s].uses EXCEPT ![ch.arg] = @ + 1]
      BY <2>2, <2>4 DEF ChangeFacts
    <3>. QED  BY <1>6, <2>3, <3>1, <3>2, <3>3
  <2>5. CASE ch.op # "use"
    <3>1. ~Charging(t, i)
      BY <2>5 DEF Charging, Change
    <3>2. write[t].copy.uses = memory[s].uses
      BY <2>1, <2>2, <2>5 DEF ChangeFacts
    <3>. QED  BY <1>6, <2>3, <3>1, <3>2
  <2>. QED  BY <2>4, <2>5
<1>. QED  BY <1>5, <1>6

\* The numbers an account is made of.
LEMMA AccountNumbers ==
  ASSUME TypeOK, NEW s \in Sessions, NEW c \in minted
  PROVE  /\ Uses(memory[s], c.id) \in Nat /\ ran[s][c.id] \in Nat /\ lost[s][c.id] \in Nat /\ c.id \in Ids
         /\ c.limit # None => c.limit \in Nat
         /\ Cardinality(Paid(s, c.id)) \in Nat /\ Cardinality(Owing(s, c.id)) \in Nat
<1>1. c.id \in Ids /\ (c.limit # None => c.limit \in Nat)
  BY DEF TypeOK, Capability
<1>2. Uses(memory[s], c.id) \in Nat
  BY <1>1, UsesType DEF TypeOK
<1>3. ran[s] \in [Ids -> Nat] /\ lost[s] \in [Ids -> Nat]
  BY DEF TypeOK
<1>4. Paid(s, c.id) \in SUBSET Tasks /\ Owing(s, c.id) \in SUBSET Tasks
  BY DEF Paid, Owing, Decided
<1>. QED  BY <1>1, <1>2, <1>3, <1>4, Counts

LEMMA DecideAccount ==
  ASSUME Stored, Lineage, NEW t \in Tasks, Decide(t), Charges',
         NEW s \in Sessions, NEW c \in minted, Account(s, c)
  PROVE  Account(s, c)'
<1>. DEFINE i == c.id
<1>0. TypeOK
  BY DEF Stored
<1>1. PICK x \in Sessions : memory[x] # None /\ \E cap \in memory[x].caps :
        /\ Allows(memory[x], cap)
        /\ call' = [call EXCEPT ![t] =
               [session |-> x, snapshot |-> memory[x], cap |-> cap, step |-> "kind",
                todo |-> ToCharge(memory[x], cap), raised |-> {}, tags |-> {}]]
  BY DEF Decide
<1>2. PICK cap \in memory[x].caps :
        /\ Allows(memory[x], cap)
        /\ call' = [call EXCEPT ![t] =
               [session |-> x, snapshot |-> memory[x], cap |-> cap, step |-> "kind",
                todo |-> ToCharge(memory[x], cap), raised |-> {}, tags |-> {}]]
  BY <1>1
<1>3. /\ \A u \in Tasks \ {t} : call'[u] = call[u] /\ write'[u] = write[u]
      /\ call'[t].session = x /\ call'[t].snapshot = memory[x] /\ call'[t].cap = cap
      /\ call'[t].step = "kind"
  BY <1>0, <1>2 DEF TypeOK, Decide
<1>4. call[t] = None /\ write'[t] = None /\ memory' = memory /\ ran' = ran /\ lost' = lost
  BY DEF Decide, Request, Idle, history
<1>5. Called(t)
  BY CallsWrite DEF Stored
<1>6. call'[t] # None
  <2>1. CASE call'[t] = None
    <3>1. [session |-> x, snapshot |-> memory[x], cap |-> cap, step |-> "kind",
           todo |-> ToCharge(memory[x], cap), raised |-> {}, tags |-> {}] \in Call
      <4>1. memory[x] \in Record /\ memory[x].caps \subseteq Capability
        BY <1>0, <1>1 DEF TypeOK, Record
      <4>2. ToCharge(memory[x], cap) \subseteq Capability
        BY <4>1 DEF ToCharge, Chain
      <4>. QED  BY <4>1, <4>2 DEF Call
    <3>2. call'[t] \in Call
      BY <1>0, <1>2, <3>1 DEF TypeOK
    <3>. QED  BY <2>1, <3>2, NoneIsNoRecord
  <2>. QED  BY <2>1
<1>7. Memberships(t, s, i)
  BY <1>3, OthersStay
<1>8. t \notin Owing(s, i) /\ t \notin Paid(s, i)
  BY <1>4 DEF Owing, Paid, Decided
<1>9. CASE x = s /\ c.limit # None /\ \E k \in Chain(memory[x].caps, cap) : k.id = i
  <2>1. PICK k \in Chain(memory[x].caps, cap) : k.id = i
    BY <1>9
  <2>2. k \in minted
    BY <1>1, ChainFacts, LineageParts DEF HeldBy, Held
  <2>3. k = c
    BY <2>1, <2>2 DEF Lineage
  <2>4. k \in call'[t].todo
    <3>1. call'[t].step = "kind" =>
            \A j \in Chain(call'[t].snapshot.caps, call'[t].cap) : j.limit # None => j \in call'[t].todo
      BY <1>6 DEF Charges
    <3>. QED  BY <1>3, <1>9, <2>1, <2>3, <3>1
  <2>5. t \in Owing(s, i)' /\ t \notin Paid(s, i)'
    BY <1>3, <1>6, <1>9, <2>1, <2>4 DEF Owing, Paid, Decided
  <2>6. /\ Cardinality(Owing(s, i)') = Cardinality(Owing(s, i)) + 1
        /\ Paid(s, i)' = Paid(s, i)
    BY <1>7, <1>8, <2>5, CountStep DEF Memberships
  <2>7. ~Exhausted(memory[s], c)
    BY <1>2, <1>9, <2>1, <2>3 DEF Allows, IsCascadedInert
  <2>8. Owing(s, i)' \in SUBSET Tasks
    BY <1>7 DEF Memberships
  <2>9. Cardinality(Owing(s, i)') <= Cardinality(Tasks) /\ Cardinality(Owing(s, i)') \in Nat
    BY <2>8, Counts
  <2>10. /\ Uses(memory[s], i) \in Nat /\ c.limit \in Nat /\ ran[s][i] \in Nat /\ lost[s][i] \in Nat
         /\ Cardinality(Paid(s, i)) \in Nat
    BY <1>0, <1>9, AccountNumbers
  <2>11. Uses(memory[s], i) < c.limit
    BY <1>1, <1>9, <2>7, <2>10 DEF Exhausted, Uses
  <2>12. ran[s][i] + Cardinality(Paid(s, i)) <= Uses(memory[s], i) + lost[s][i]
    BY <1>9 DEF Account
  <2>13. ran[s][i] + Cardinality(Paid(s, i)) + Cardinality(Owing(s, i)')
           < c.limit + Cardinality(Tasks) + lost[s][i]
    BY <2>9, <2>10, <2>11, <2>12, TasksCount
  <2>. QED  BY <1>4, <2>6, <2>12, <2>13 DEF Account
<1>10. CASE ~(x = s /\ c.limit # None /\ \E k \in Chain(memory[x].caps, cap) : k.id = i)
  <2>1. CASE c.limit = None
    BY <2>1 DEF Account
  <2>2. CASE c.limit # None
    <3>1. t \notin Owing(s, i)' /\ t \notin Paid(s, i)'
      BY <1>3, <1>10, <2>2 DEF Owing, Paid, Decided
    <3>. QED  BY <1>4, <1>7, <1>8, <3>1, AccountKept
  <2>. QED  BY <2>1, <2>2
<1>. QED  BY <1>9, <1>10

LEMMA RecordCapUseAccount ==
  ASSUME Stored, Lineage, Charges, NEW t \in Tasks, RecordCapUse(t),
         NEW s \in Sessions, NEW c \in minted, Account(s, c)
  PROVE  Account(s, c)'
<1>. DEFINE i == c.id
<1>0. TypeOK
  BY DEF Stored
<1>1. PICK k \in call[t].todo :
        /\ Begin(t, call[t].session, memory[call[t].session], Change("use", k.id))
        /\ call' = [call EXCEPT ![t].todo = @ \ {k}]
  BY DEF RecordCapUse
<1>2. /\ call[t] # None /\ call[t] \in Call /\ call[t].step = "charge" /\ write[t] = None
      /\ memory' = memory /\ ran' = ran /\ lost' = lost
  BY <1>0 DEF RecordCapUse, At, TypeOK, history
<1>3. /\ \A u \in Tasks \ {t} : call'[u] = call[u] /\ write'[u] = write[u]
      /\ call'[t] = [call[t] EXCEPT !.todo = @ \ {k}]
      /\ write'[t].change = Change("use", k.id)
  BY <1>0, <1>1 DEF TypeOK, Begin
<1>4. /\ call'[t].snapshot = call[t].snapshot /\ call'[t].cap = call[t].cap
      /\ call'[t].todo = call[t].todo \ {k} /\ call'[t].step = call[t].step
      /\ call'[t].session = call[t].session /\ call'[t] \in Call
  BY <1>2, <1>3 DEF Call
<1>5. call'[t] # None
  BY <1>4, NoneIsNoRecord
<1>6. write'[t] # None
  <2>1. memory[call[t].session] \in Record /\ k.id \in Ids /\ call[t].session \in Sessions
    BY <1>0, <1>2 DEF Stored, Present, TypeOK, Call, Capability
  <2>2. Change("use", k.id) \in Changes
    BY <2>1 DEF Changes, Change
  <2>3. Apply(Change("use", k.id), memory[call[t].session]) \in Record
    BY <2>1, <2>2, ApplyFacts DEF ChangeFacts
  <2>4. write'[t] = [session |-> call[t].session, copy |-> Apply(Change("use", k.id), memory[call[t].session]),
                     change |-> Change("use", k.id), saved |-> FALSE]
    BY <1>0, <1>1 DEF Begin, TypeOK
  <2>5. write'[t] \in Write
    BY <2>1, <2>2, <2>3, <2>4 DEF Write
  <2>. QED  BY <2>5, NoneIsNoRecord
<1>7. Memberships(t, s, i)
  BY <1>3, OthersStay
<1>8. t \in Decided(s, i) <=> t \in Decided(s, i)'
  BY <1>2, <1>4, <1>5 DEF Decided
<1>9. Charging(t, i)' <=> k.id = i
  BY <1>3, <1>6 DEF Charging, Change
<1>10. (\E j \in call[t].todo : j.id = i) <=> (\E j \in call[t].todo \ {k} : j.id = i) \/ k.id = i
  OBVIOUS
<1>11. ~Charging(t, i)
  BY <1>2 DEF Charging
<1>12. t \in Owing(s, i) <=> t \in Owing(s, i)'
  BY <1>4, <1>8, <1>9, <1>10, <1>11 DEF Owing
<1>13. t \in Paid(s, i) <=> t \in Paid(s, i)'
  BY <1>8, <1>12 DEF Paid
<1>. QED  BY <1>2, <1>7, <1>12, <1>13, AccountKept

LEMMA RunHandlerAccount ==
  ASSUME Stored, Lineage, Charges, NEW t \in Tasks, RunHandler(t),
         NEW s \in Sessions, NEW c \in minted, Account(s, c)
  PROVE  Account(s, c)'
<1>. DEFINE i == c.id
            x == call[t].session
            used == \E k \in Chain(call[t].snapshot.caps, call[t].cap) : k.id = i
<1>0. TypeOK
  BY DEF Stored
<1>1. /\ call[t] # None /\ call[t] \in Call /\ call[t].step = "charge" /\ call[t].todo = {}
      /\ write[t] = None /\ memory' = memory /\ write' = write /\ lost' = lost
      /\ x \in Sessions
  BY <1>0 DEF RunHandler, At, TypeOK, Call, history
<1>2. /\ \A u \in Tasks \ {t} : call'[u] = call[u] /\ write'[u] = write[u]
      /\ call'[t] = [call[t] EXCEPT !.step = "handler"]
  BY <1>0 DEF RunHandler, TypeOK
<1>3. call'[t].step = "handler"
  BY <1>1, <1>2 DEF Call
<1>4. Memberships(t, s, i)
  BY <1>2, OthersStay
<1>5. t \notin Owing(s, i) /\ t \notin Owing(s, i)' /\ t \notin Paid(s, i)'
  BY <1>1, <1>3 DEF Owing, Paid, Decided, Charging
<1>6. c.id \in Ids
  BY <1>0 DEF TypeOK, Capability
<1>7. ran'[s][i] = IF x = s /\ used THEN ran[s][i] + 1 ELSE ran[s][i]
  BY <1>0, <1>1, <1>6 DEF RunHandler, TypeOK
<1>8. CASE x = s /\ used
  <2>1. t \in Paid(s, i)
    BY <1>1, <1>5, <1>8 DEF Paid, Decided
  <2>2. /\ Cardinality(Paid(s, i)) = Cardinality(Paid(s, i)') + 1
        /\ Owing(s, i)' = Owing(s, i)
    <3>1. /\ Paid(s, i) \in SUBSET Tasks /\ Paid(s, i)' \in SUBSET Tasks
          /\ \A u \in Tasks \ {t} : u \in Paid(s, i) <=> u \in Paid(s, i)'
          /\ t \in Paid(s, i) /\ t \notin Paid(s, i)'
      BY <1>4, <1>5, <2>1 DEF Memberships
    <3>2. /\ Owing(s, i) \in SUBSET Tasks /\ Owing(s, i)' \in SUBSET Tasks
          /\ \A u \in Tasks \ {t} : u \in Owing(s, i) <=> u \in Owing(s, i)'
          /\ t \notin Owing(s, i) /\ t \notin Owing(s, i)'
      BY <1>4, <1>5 DEF Memberships
    <3>3. Cardinality(Paid(s, i)) = Cardinality(Paid(s, i)') + 1
      BY <3>1, CountStep
    <3>4. Owing(s, i)' = Owing(s, i)
      BY <3>2
    <3>. QED  BY <3>3, <3>4
  <2>3. Paid(s, i)' \in SUBSET Tasks
    BY <1>4 DEF Memberships
  <2>4. Cardinality(Paid(s, i)') \in Nat
    BY <2>3, Counts
  <2>5. ran[s][i] \in Nat
    BY <1>0, AccountNumbers
  <2>6. ran'[s][i] + Cardinality(Paid(s, i)') = ran[s][i] + Cardinality(Paid(s, i))
    BY <1>7, <1>8, <2>2, <2>4, <2>5
  <2>. QED  BY <1>1, <2>2, <2>6 DEF Account
<1>9. CASE ~(x = s /\ used)
  <2>1. t \notin Paid(s, i)
    BY <1>9 DEF Paid, Decided
  <2>. QED  BY <1>1, <1>4, <1>5, <1>7, <1>9, <2>1, AccountKept
<1>. QED  BY <1>8, <1>9

\* The other steps of a call, and the requests, leave the accounts alone.
LEMMA IdleAccount ==
  ASSUME TypeOK, NEW t \in Tasks, NoUse(t), ran' = ran, lost' = lost,
         \A u \in Tasks \ {t} : call'[u] = call[u],
         \/ call[t] = None /\ call'[t] = None
         \/ call[t] # None /\ call[t].step \notin {"kind", "charge"}
            /\ (call'[t] # None => call'[t].step \notin {"kind", "charge"})
         \/ RecordUsedKind(t),
         NEW s \in Sessions, NEW c \in minted, Account(s, c)
  PROVE  Account(s, c)'
<1>. DEFINE i == c.id
<1>1. Memberships(t, s, i)
  BY OthersStay DEF NoUse
<1>2. ~Charging(t, i) /\ ~Charging(t, i)'
  BY DEF NoUse, Charging, Change
<1>3. CASE ~RecordUsedKind(t)
  <2>1. t \notin Decided(s, i) /\ t \notin Decided(s, i)'
    BY <1>3 DEF Decided
  <2>2. /\ t \notin Owing(s, i) /\ t \notin Owing(s, i)'
        /\ t \notin Paid(s, i) /\ t \notin Paid(s, i)'
    BY <2>1 DEF Owing, Paid
  <2>. QED  BY <1>1, <2>2, AccountKept DEF NoUse
<1>4. CASE RecordUsedKind(t)
  <2>1. call[t] # None /\ call[t] \in Call /\ call[t].step = "kind"
    BY <1>4 DEF RecordUsedKind, At, TypeOK
  <2>2. call'[t] = [call[t] EXCEPT !.step = "charge"]
    BY <1>4 DEF RecordUsedKind, TypeOK
  <2>3. /\ call'[t].snapshot = call[t].snapshot /\ call'[t].cap = call[t].cap
        /\ call'[t].todo = call[t].todo /\ call'[t].step = "charge"
        /\ call'[t].session = call[t].session /\ call'[t] \in Call
    BY <2>1, <2>2 DEF Call
  <2>4. call'[t] # None
    BY <2>3, NoneIsNoRecord
  <2>5. t \in Decided(s, i) <=> t \in Decided(s, i)'
    BY <2>1, <2>3, <2>4 DEF Decided
  <2>6. t \in Owing(s, i) <=> t \in Owing(s, i)'
    BY <1>2, <2>3, <2>5 DEF Owing
  <2>7. t \in Paid(s, i) <=> t \in Paid(s, i)'
    BY <2>5, <2>6 DEF Paid
  <2>. QED  BY <1>1, <2>6, <2>7, AccountKept DEF NoUse
<1>. QED  BY <1>3, <1>4

LEMMA SaveAccount ==
  ASSUME TypeOK, NEW t \in Tasks, Save(t), NEW s \in Sessions, NEW c \in minted, Account(s, c)
  PROVE  Account(s, c)'
<1>1. /\ call' = call /\ memory' = memory /\ ran' = ran /\ lost' = lost
      /\ write[t] # None /\ write[t] \in Write /\ write'[t] = [write[t] EXCEPT !.saved = TRUE]
      /\ \A u \in Tasks \ {t} : write'[u] = write[u]
  BY DEF Save, TypeOK, history
<1>2. write'[t] \in Write /\ write'[t].change = write[t].change
  BY <1>1 DEF Write
<1>3. \A u \in Tasks : (write'[u] # None <=> write[u] # None) /\ write'[u].change = write[u].change
  BY <1>1, <1>2, NoneIsNoRecord
<1>4. Owing(s, c.id)' = Owing(s, c.id) /\ Paid(s, c.id)' = Paid(s, c.id)
  BY <1>1, <1>3 DEF Owing, Paid, Decided, Charging
<1>. QED  BY <1>1, <1>4 DEF Account

\* A call that ends with its write takes nothing with it but what it owed.
LEMMA SaveRaisesAccount ==
  ASSUME TypeOK, NEW t \in Tasks, SaveRaises(t), NEW s \in Sessions, NEW c \in minted, Account(s, c)
  PROVE  Account(s, c)'
<1>. DEFINE i == c.id
<1>1. /\ memory' = memory /\ ran' = ran /\ lost' = lost /\ call'[t] = None
      /\ \A u \in Tasks \ {t} : call'[u] = call[u] /\ write'[u] = write[u]
  BY DEF SaveRaises, TypeOK, history
<1>2. Memberships(t, s, i)
  BY <1>1, OthersStay
<1>3. t \notin Owing(s, i)' /\ t \notin Paid(s, i)'
  BY <1>1 DEF Owing, Paid, Decided
<1>4. /\ Cardinality(Owing(s, i)') <= Cardinality(Owing(s, i)) /\ Cardinality(Owing(s, i)') \in Nat
  <2>1. /\ Owing(s, i) \in SUBSET Tasks /\ Owing(s, i)' \in SUBSET Tasks
        /\ \A u \in Tasks \ {t} : u \in Owing(s, i) <=> u \in Owing(s, i)'
    BY <1>2 DEF Memberships
  <2>2. Cardinality(Owing(s, i)') \in Nat /\ Cardinality(Owing(s, i)) \in Nat
    BY <2>1, Counts
  <2>. QED  BY <1>3, <2>1, <2>2, CountStep
<1>5. /\ Cardinality(Paid(s, i)') <= Cardinality(Paid(s, i)) /\ Cardinality(Paid(s, i)') \in Nat
  <2>1. /\ Paid(s, i) \in SUBSET Tasks /\ Paid(s, i)' \in SUBSET Tasks
        /\ \A u \in Tasks \ {t} : u \in Paid(s, i) <=> u \in Paid(s, i)'
    BY <1>2 DEF Memberships
  <2>2. Cardinality(Paid(s, i)') \in Nat /\ Cardinality(Paid(s, i)) \in Nat
    BY <2>1, Counts
  <2>. QED  BY <1>3, <2>1, <2>2, CountStep
<1>6. /\ Uses(memory[s], i) \in Nat /\ ran[s][i] \in Nat /\ lost[s][i] \in Nat
      /\ c.limit # None => c.limit \in Nat
      /\ Cardinality(Paid(s, i)) \in Nat /\ Cardinality(Owing(s, i)) \in Nat
  BY AccountNumbers
<1>. QED  BY <1>1, <1>4, <1>5, <1>6, TasksCount DEF Account

\* The copy that is published has the charge it was made for, or the charge is lost.
LEMMA PublishAccount ==
  ASSUME Stored, Charges, NEW t \in Tasks, Publish(t),
         NEW s \in Sessions, NEW c \in minted, Account(s, c)
  PROVE  Account(s, c)'
<1>. DEFINE i == c.id
            x == write[t].session
<1>0. TypeOK /\ WriteCharges(t)
  BY ChargesParts DEF Stored
<1>1. /\ call' = call /\ ran' = ran /\ write[t] # None /\ write[t] \in Write /\ write'[t] = None
      /\ x \in Sessions /\ write[t].copy \in Record /\ write[t].change \in Changes
      /\ \A u \in Tasks \ {t} : write'[u] = write[u]
      /\ memory'[x] = write[t].copy /\ \A y \in Sessions \ {x} : memory'[y] = memory[y]
  BY <1>0 DEF Publish, PutIntoMemory, TypeOK, Write
<1>2. Memberships(t, s, i)
  BY <1>1, OthersStay
<1>3. ~Charging(t, i)' /\ (t \in Decided(s, i) <=> t \in Decided(s, i)')
  BY <1>1 DEF Charging, Decided
<1>4. ASSUME ~Charging(t, i) \/ x # s
      PROVE  /\ t \in Owing(s, i) <=> t \in Owing(s, i)'
             /\ t \in Paid(s, i) <=> t \in Paid(s, i)'
  <2>1. CASE ~Charging(t, i)
    <3>1. t \in Owing(s, i) <=> t \in Owing(s, i)'
      BY <1>1, <1>3, <2>1 DEF Owing
    <3>. QED  BY <1>3, <3>1 DEF Paid
  <2>2. CASE Charging(t, i) /\ x # s
    <3>1. write[t].change.op = "use"
      BY <2>2 DEF Charging, Change
    <3>2. t \notin Decided(s, i)
      BY <1>0, <1>1, <2>2, <3>1 DEF WriteCharges, Decided
    <3>. QED  BY <1>3, <3>2 DEF Owing, Paid
  <2>. QED  BY <1>4, <2>1, <2>2
<1>5. CASE x # s
  <2>1. lost'[s] = lost[s]
    BY <1>0, <1>5, PublishLoses
  <2>. QED  BY <1>1, <1>2, <1>4, <1>5, <2>1, AccountKept
<1>6. CASE x = s
  <2>. DEFINE o == Cardinality(Owing(s, i))
              p == Cardinality(Paid(s, i))
              m == Uses(memory[s], i)
              n == write[t].copy.uses[i]
              g == Missing(m + Charge(t, i), n)
  <2>1. /\ i \in Ids /\ (c.limit # None => c.limit \in Nat) /\ m \in Nat /\ ran[s][i] \in Nat
        /\ lost[s][i] \in Nat /\ o \in Nat /\ p \in Nat
    BY <1>0, AccountNumbers
  <2>2. n \in Nat /\ Charge(t, i) \in Nat
    BY <1>1, <2>1 DEF Record, Charge
  <2>3. g \in Nat /\ n + g >= m + Charge(t, i)
    BY <2>1, <2>2, MissingIsNat
  <2>4. lost'[s][i] = lost[s][i] + g
    BY <1>0, <1>6, <2>1, PublishLoses
  <2>5. Uses(memory'[s], i) = n
    BY <1>1, <1>6, NoneIsNoRecord DEF Uses
  <2>6. Charge(t, i) = IF Charging(t, i) THEN 1 ELSE 0
    <3>1. write[t].change = Change("use", i) => write[t].change.op = "use" /\ write[t].change.arg = i
      BY DEF Change
    <3>2. write[t].change.op = "use" => write[t].change \in [op : {"use"}, arg : Ids]
      BY <1>1 DEF Changes
    <3>3. write[t].change.op = "use" /\ write[t].change.arg = i => write[t].change = Change("use", i)
      BY <3>2 DEF Change
    <3>. QED  BY <1>1, <3>1, <3>3 DEF Charge, Charging
  <2>7. /\ p' + o' = p + o /\ p' = p + Charge(t, i)
    <3>1. CASE ~Charging(t, i)
      <4>1. Owing(s, i)' = Owing(s, i) /\ Paid(s, i)' = Paid(s, i)
        BY <1>2, <1>4, <3>1 DEF Memberships
      <4>. QED  BY <2>1, <2>6, <3>1, <4>1
    <3>2. CASE Charging(t, i)
      <4>1. write[t].change.op = "use" /\ write[t].change.arg = i
        BY <3>2 DEF Charging, Change
      <4>2. t \in Decided(s, i) /\ ~ \E k \in call[t].todo : k.id = i
        BY <1>0, <1>1, <1>6, <4>1 DEF WriteCharges, Decided
      <4>3. t \in Owing(s, i) /\ t \notin Paid(s, i) /\ t \notin Owing(s, i)' /\ t \in Paid(s, i)'
        BY <1>1, <1>3, <3>2, <4>2 DEF Owing, Paid
      <4>4. o = o' + 1
        <5>1. /\ Owing(s, i) \in SUBSET Tasks /\ Owing(s, i)' \in SUBSET Tasks
              /\ \A u \in Tasks \ {t} : u \in Owing(s, i) <=> u \in Owing(s, i)'
          BY <1>2 DEF Memberships
        <5>. QED  BY <4>3, <5>1, CountStep
      <4>5. p' = p + 1
        <5>1. /\ Paid(s, i) \in SUBSET Tasks /\ Paid(s, i)' \in SUBSET Tasks
              /\ \A u \in Tasks \ {t} : u \in Paid(s, i) <=> u \in Paid(s, i)'
          BY <1>2 DEF Memberships
        <5>. QED  BY <4>3, <5>1, CountStep
      <4>6. o' \in Nat
        <5>1. Owing(s, i)' \in SUBSET Tasks
          BY <1>2 DEF Memberships
        <5>. QED  BY <5>1, Counts
      <4>. QED  BY <2>1, <2>6, <3>2, <4>4, <4>5, <4>6
    <3>. QED  BY <3>1, <3>2
  <2>8. o' \in Nat /\ p' \in Nat
    <3>1. Owing(s, i)' \in SUBSET Tasks /\ Paid(s, i)' \in SUBSET Tasks
      BY <1>2 DEF Memberships
    <3>. QED  BY <3>1, Counts
  <2>9. c.limit # None =>
          /\ ran[s][i] + p <= m + lost[s][i]
          /\ ran[s][i] + p + o < c.limit + Cardinality(Tasks) + lost[s][i]
    BY DEF Account
  <2>10. c.limit # None =>
          /\ ran[s][i] + p' <= n + (lost[s][i] + g)
          /\ ran[s][i] + p' + o' < c.limit + Cardinality(Tasks) + (lost[s][i] + g)
    <3>. HIDE DEF o, p, m, n, g
    <3>. QED  BY <2>1, <2>2, <2>3, <2>7, <2>8, <2>9, TasksCount
  <2>. QED  BY <1>1, <2>4, <2>5, <2>10 DEF Account
<1>. QED  BY <1>5, <1>6

\* What a restart finds of a session whose writes did not overlap: what was in memory, or
\* what the one write under way had stored.
LEMMA RestartFinds ==
  ASSUME Stored, Restart, NEW s \in Sessions \ overlapped
  PROVE  memory'[s] = memory[s] \/ \E t \in WritesOn(s) : memory'[s] = write[t].copy
BY DEF Stored, Lone, Restart

LEMMA RestartAccount ==
  ASSUME TypeOK, Restart, NEW s \in Sessions, NEW c \in minted, Account(s, c)
  PROVE  Account(s, c)'
<1>. DEFINE i == c.id
            m == Uses(memory[s], i)
            n == Uses(disk[s], i)
<1>1. ran' = ran /\ memory' = disk /\ \A t \in Tasks : call'[t] = None
  BY DEF Restart
<1>2. Owing(s, i)' = {} /\ Paid(s, i)' = {}
  BY <1>1 DEF Owing, Paid, Decided
<1>3. Cardinality(Owing(s, i)') = 0 /\ Cardinality(Paid(s, i)') = 0
  BY <1>2, FS_EmptySet
<1>4. /\ i \in Ids /\ (c.limit # None => c.limit \in Nat) /\ m \in Nat
      /\ ran[s][i] \in Nat /\ lost[s][i] \in Nat
      /\ Cardinality(Paid(s, i)) \in Nat /\ Cardinality(Owing(s, i)) \in Nat
  BY AccountNumbers
<1>5. n \in Nat
  BY <1>4, UsesType DEF TypeOK
<1>6. Missing(m, n) \in Nat /\ n + Missing(m, n) >= m
  BY <1>4, <1>5, MissingIsNat
<1>7. lost'[s][i] = lost[s][i] + Missing(m, n)
  BY <1>4, RestartLoses
<1>8. c.limit # None =>
        /\ ran[s][i] + Cardinality(Paid(s, i)) <= m + lost[s][i]
        /\ ran[s][i] + Cardinality(Paid(s, i)) + Cardinality(Owing(s, i))
             < c.limit + Cardinality(Tasks) + lost[s][i]
  BY DEF Account
<1>9. c.limit # None =>
        /\ ran[s][i] + 0 <= n + (lost[s][i] + Missing(m, n))
        /\ ran[s][i] + 0 + 0 < c.limit + Cardinality(Tasks) + (lost[s][i] + Missing(m, n))
  <2>. HIDE DEF m, n
  <2>. QED  BY <1>4, <1>5, <1>6, <1>8, TasksCount
<1>. QED  BY <1>1, <1>3, <1>7, <1>9 DEF Account

\* A capability that is new was never used.
LEMMA NewAccount ==
  ASSUME Stored, Lineage, Charges, Unused, NEW s \in Sessions, NEW c \in minted' \ minted,
         NEW cap, Mints(cap), memory' = memory, ran' = ran, lost' = lost, call' = call
  PROVE  Account(s, c)'
<1>. DEFINE i == c.id
<1>1. c \in Capability /\ i \in Ids /\ i \notin MintedIds /\ (c.limit # None => c.limit \in Nat)
  BY DEF Mints, Capability
<1>2. ran'[s][i] = 0
  BY <1>1 DEF Unused
<1>3. ASSUME NEW u \in Tasks, call[u] # None PROVE \A k \in Chain(call[u].snapshot.caps, call[u].cap) : k.id # i
  <2>1. call[u].cap \in call[u].snapshot.caps /\ call[u].snapshot.caps \subseteq minted
    BY <1>3 DEF Charges, Lineage
  <2>2. Chain(call[u].snapshot.caps, call[u].cap) \subseteq minted
    BY <2>1, ChainFacts
  <2>. QED  BY <1>1, <2>2 DEF MintedIds
<1>4. Decided(s, i)' = {}
  BY <1>3 DEF Decided
<1>5. Owing(s, i)' = {} /\ Paid(s, i)' = {}
  BY <1>4 DEF Owing, Paid
<1>6. Cardinality(Owing(s, i)') = 0 /\ Cardinality(Paid(s, i)') = 0
  BY <1>5, FS_EmptySet
<1>7. Uses(memory'[s], i) \in Nat /\ lost'[s][i] \in Nat
  BY <1>1, UsesType DEF Stored, TypeOK
<1>. QED  BY <1>1, <1>2, <1>6, <1>7, TasksCount DEF Account

\* What was not made is never used.
LEMMA UnusedStep ==
  ASSUME Stored, Lineage, Charges, Unused, minted \subseteq minted', [Next]_vars
  PROVE  Unused'
<1>0. TypeOK
  BY DEF Stored
<1>1. SUFFICES ASSUME NEW s \in Sessions, NEW i \in Ids, i \notin MintedIds'
      PROVE  ran'[s][i] = 0
  BY DEF Unused
<1>2. i \notin MintedIds
  BY <1>1 DEF MintedIds
<1>3. CASE ran' = ran
  BY <1>2, <1>3 DEF Unused
<1>4. ASSUME NEW t \in Tasks, RunHandler(t)
      PROVE  ran'[s][i] = 0
  <2>1. call[t] # None /\ call[t].session \in Sessions
    BY <1>0, <1>4 DEF RunHandler, At, TypeOK, Call
  <2>2. Chain(call[t].snapshot.caps, call[t].cap) \subseteq minted
    BY <2>1, ChainFacts DEF Charges, Lineage
  <2>3. ~ \E k \in Chain(call[t].snapshot.caps, call[t].cap) : k.id = i
    BY <1>2, <2>2 DEF MintedIds
  <2>4. ran'[s][i] = ran[s][i]
    BY <1>0, <1>4, <2>1, <2>3 DEF RunHandler, TypeOK
  <2>. QED  BY <1>2, <2>4 DEF Unused
<1>5. ran' = ran \/ \E t \in Tasks : RunHandler(t)
  BY DEF Next, vars, Restart, Save, SaveRaises, Publish, PutIntoMemory, New, Fork, GrantCapability,
     RevokeCapability, Delegate, AddTags, AddNote, Transition, Decide, RecordUsedKind, RecordCapUse,
     HandlerRaises, HandlerReturns, ApplyInspectors, PropagateTags
<1>. QED  BY <1>3, <1>4, <1>5

LEMMA AccountsInit == Init => Accounts
<1>. SUFFICES ASSUME Init PROVE Accounts
  OBVIOUS
<1>0. TypeOK
  BY StoredInit DEF Stored
<1>1. /\ call = [t \in Tasks |-> None] /\ ran = [s \in Sessions |-> [i \in Ids |-> 0]]
  BY DEF Init
<1>2. \A s, i : Owing(s, i) = {} /\ Paid(s, i) = {}
  BY <1>1 DEF Owing, Paid, Decided
<1>3. Unused
  BY <1>1 DEF Unused
<1>4. ASSUME NEW s \in Sessions, NEW c \in minted PROVE Account(s, c)
  <2>1. /\ Uses(memory[s], c.id) \in Nat /\ lost[s][c.id] \in Nat /\ c.id \in Ids
        /\ c.limit # None => c.limit \in Nat
    BY <1>0, AccountNumbers
  <2>2. ran[s][c.id] = 0
    BY <1>1, <2>1
  <2>3. Cardinality(Owing(s, c.id)) = 0 /\ Cardinality(Paid(s, c.id)) = 0
    BY <1>2, FS_EmptySet
  <2>. QED  BY <2>1, <2>2, <2>3, TasksCount DEF Account
<1>. QED  BY <1>3, <1>4 DEF Accounts

LEMMA AccountsStep ==
  Stored /\ Lineage /\ Charges /\ Charges' /\ Accounts /\ [Next]_vars => Accounts'
<1>. SUFFICES ASSUME Stored, Lineage, Charges, Charges', Accounts, [Next]_vars
              PROVE  Accounts'
  OBVIOUS
<1>0. /\ TypeOK /\ Present /\ Unused /\ HeldBy(minted)
      /\ \A s \in Sessions, c \in minted : Account(s, c)
  BY LineageParts DEF Stored, Accounts
<1>1. minted' = minted \/ \E t \in Tasks : GrantCapability(t) \/ Delegate(t)
  BY DEF Next, vars, Restart, Save, SaveRaises, Publish, PutIntoMemory, New, Fork, RevokeCapability,
     AddTags, AddNote, Transition, Decide, RecordUsedKind, RecordCapUse, RunHandler, HandlerRaises,
     HandlerReturns, ApplyInspectors, PropagateTags
<1>2. minted' = minted \/ \E cap : Mints(cap)
  BY <1>0, <1>1, GrantMints, DelegateMints
<1>3. minted \subseteq minted'
  BY <1>2 DEF Mints
<1>4. Unused'
  BY <1>0, <1>3, UnusedStep
<1>5. SUFFICES ASSUME NEW s \in Sessions, NEW c \in minted'
               PROVE  Account(s, c)'
  BY <1>4, AccountsPartsNext
<1>7. CASE c \in minted
  <2>0. Account(s, c)
    BY <1>0, <1>7
  <2>1. CASE UNCHANGED vars
    BY <2>0, <2>1 DEF vars, Account, Owing, Paid, Decided, Charging
  <2>2. CASE Restart
    BY <1>0, <1>7, <2>0, <2>2, RestartAccount
  <2>3. ASSUME NEW t \in Tasks, Save(t) PROVE Account(s, c)'
    BY <1>0, <1>7, <2>0, <2>3, SaveAccount
  <2>11. ASSUME NEW t \in Tasks, SaveRaises(t) PROVE Account(s, c)'
    BY <1>0, <1>7, <2>0, <2>11, SaveRaisesAccount
  <2>4. ASSUME NEW t \in Tasks, Publish(t) PROVE Account(s, c)'
    BY <1>7, <2>0, <2>4, PublishAccount
  <2>5. ASSUME NEW t \in Tasks, Decide(t) PROVE Account(s, c)'
    BY <1>7, <2>0, <2>5, DecideAccount
  <2>6. ASSUME NEW t \in Tasks, RecordCapUse(t) PROVE Account(s, c)'
    BY <1>7, <2>0, <2>6, RecordCapUseAccount
  <2>7. ASSUME NEW t \in Tasks, RunHandler(t) PROVE Account(s, c)'
    BY <1>7, <2>0, <2>7, RunHandlerAccount
  <2>8. ASSUME NEW t \in Tasks,
               \/ New(t) \/ Fork(t) \/ GrantCapability(t) \/ RevokeCapability(t) \/ Delegate(t)
               \/ AddTags(t) \/ AddNote(t) \/ Transition(t)
        PROVE  Account(s, c)'
    <3>1. NoUse(t) /\ call[t] = None /\ call' = call /\ ran' = ran /\ lost' = lost
      BY <1>0, <2>8, RequestsUseNothing, RequestsWrite DEF history
    <3>. QED  BY <1>0, <1>7, <2>0, <3>1, IdleAccount
  <2>9. ASSUME NEW t \in Tasks, RecordUsedKind(t) PROVE Account(s, c)'
    <3>1. NoUse(t) /\ ran' = ran /\ lost' = lost /\ \A u \in Tasks \ {t} : call'[u] = call[u]
      BY <1>0, <2>9, CallsUseNothing DEF RecordUsedKind, TypeOK, history
    <3>. QED  BY <1>0, <1>7, <2>0, <2>9, <3>1, IdleAccount
  <2>10. ASSUME NEW t \in Tasks,
                HandlerRaises(t) \/ HandlerReturns(t) \/ ApplyInspectors(t) \/ PropagateTags(t)
         PROVE  Account(s, c)'
    <3>1. NoUse(t)
      BY <1>0, <2>10, CallsUseNothing
    <3>2. /\ ran' = ran /\ lost' = lost /\ \A u \in Tasks \ {t} : call'[u] = call[u]
          /\ call[t] # None /\ call[t] \in Call /\ call[t].step \notin {"kind", "charge"}
      BY <1>0, <2>10 DEF TypeOK, At, HandlerRaises, HandlerReturns, ApplyInspectors, PropagateTags, history
    <3>3. call'[t] # None => call'[t].step \notin {"kind", "charge"}
      <4>1. CASE HandlerReturns(t)
        <5>1. PICK raised, tags :
                call' = [call EXCEPT ![t].step = "inspect", ![t].raised = raised, ![t].tags = tags]
          BY <4>1 DEF HandlerReturns
        <5>2. call'[t] = [call[t] EXCEPT !.step = "inspect", !.raised = raised, !.tags = tags]
          BY <1>0, <5>1 DEF TypeOK
        <5>. QED  BY <3>2, <5>2 DEF Call
      <4>2. CASE ApplyInspectors(t)
        <5>1. call'[t] = [call[t] EXCEPT !.step = "tags"]
          BY <1>0, <4>2 DEF ApplyInspectors, TypeOK
        <5>. QED  BY <3>2, <5>1 DEF Call
      <4>3. CASE HandlerRaises(t) \/ PropagateTags(t)
        BY <1>0, <4>3 DEF HandlerRaises, PropagateTags, TypeOK
      <4>. QED  BY <2>10, <4>1, <4>2, <4>3
    <3>. QED  BY <1>0, <1>7, <2>0, <3>1, <3>2, <3>3, IdleAccount
  <2>. QED  BY <2>1, <2>2, <2>3, <2>4, <2>5, <2>6, <2>7, <2>8, <2>9, <2>10, <2>11 DEF Next
<1>8. CASE c \notin minted
  <2>1. PICK cap : Mints(cap)
    BY <1>2, <1>8
  <2>2. PICK t \in Tasks : GrantCapability(t) \/ Delegate(t)
    BY <1>1, <1>8
  <2>3. memory' = memory /\ ran' = ran /\ lost' = lost /\ call' = call
    BY <2>2 DEF GrantCapability, Delegate, history
  <2>. QED  BY <1>0, <1>8, <2>1, <2>3, NewAccount
<1>. QED  BY <1>7, <1>8

\* The lone write of a session has all the charges that memory has, and so has the store.
LEMMA LosslessStep ==
  ASSUME Stored, Charges, Lossless, [Next]_vars
  PROVE  Lossless'
<1>0. TypeOK /\ Present /\ overlapped \subseteq overlapped'
  BY OverlappedGrows DEF Stored
<1>1. SUFFICES ASSUME NEW s \in Sessions \ overlapped', NEW i \in Ids
      PROVE  lost'[s][i] = 0
  BY DEF Lossless
<1>2. s \in Sessions \ overlapped /\ lost[s][i] = 0
  BY <1>0, <1>1 DEF Lossless
<1>3. Uses(memory[s], i) \in Nat /\ Uses(disk[s], i) \in Nat
  BY <1>0, UsesType DEF TypeOK
<1>4. CASE lost' = lost
  BY <1>2, <1>4
<1>5. CASE Restart
  <2>1. Uses(memory[s], i) <= Uses(disk[s], i)
    <3>1. CASE memory[s] = None
      BY <1>3, <3>1 DEF Uses
    <3>2. CASE memory[s] # None
      <4>1. memory[s].uses[i] \in Nat /\ disk[s] # None
        BY <1>0, <3>2 DEF TypeOK, Record, Present
      <4>2. memory'[s] = disk[s]
        BY <1>5 DEF Restart
      <4>3. disk[s].uses[i] \in {memory[s].uses[i], memory[s].uses[i] + 1}
        BY <1>2, <1>5, <3>2, <4>2, RestartFinds, LoneWriteUses
      <4>. QED  BY <3>2, <4>1, <4>3 DEF Uses
    <3>. QED  BY <3>1, <3>2
  <2>2. lost'[s][i] = lost[s][i] + Missing(Uses(memory[s], i), Uses(disk[s], i))
    BY <1>0, <1>2, <1>5, RestartLoses
  <2>3. Missing(Uses(memory[s], i), Uses(disk[s], i)) = 0
    BY <1>3, <2>1, MissingIsNat
  <2>. QED  BY <1>2, <2>2, <2>3
<1>6. ASSUME NEW t \in Tasks, Publish(t)
      PROVE  lost'[s][i] = 0
  <2>1. CASE write[t].session # s
    BY <1>0, <1>2, <1>6, <2>1, PublishLoses
  <2>2. CASE write[t].session = s
    <3>1. /\ t \in WritesOn(s) /\ write[t] \in Write /\ write[t] # None /\ write[t].copy.uses[i] \in Nat
          /\ write[t].change \in Changes
      BY <1>0, <1>6, <2>2 DEF Publish, WritesOn, Writes, TypeOK, Write, Record
    <3>2. CASE memory[s] = None
      <4>1. write[t].change.op = "create"
        BY <1>0, <2>2, <3>1, <3>2 DEF Present, WritesOn
      <4>2. Uses(memory[s], i) = 0 /\ Charge(t, i) = 0
        BY <3>2, <4>1 DEF Uses, Charge
      <4>3. Uses(memory[s], i) + Charge(t, i) = 0
        BY <4>2
      <4>4. Missing(0, write[t].copy.uses[i]) = 0
        BY <3>1, MissingIsNat
      <4>. QED  BY <1>0, <1>2, <1>6, <2>2, <4>3, <4>4, PublishLoses
    <3>3. CASE memory[s] # None
      <4>1. /\ memory[s].uses[i] \in Nat
            /\ Charging(t, i) => write[t].copy.uses[i] = memory[s].uses[i] + 1
            /\ ~Charging(t, i) => write[t].copy.uses[i] = memory[s].uses[i]
        BY <1>2, <3>1, <3>3, LoneWriteUses
      <4>2. write[t].change.op = "use" /\ write[t].change.arg = i => Charging(t, i)
        <5>1. write[t].change.op = "use" => write[t].change \in [op : {"use"}, arg : Ids]
          BY <3>1 DEF Changes
        <5>. QED  BY <3>1, <5>1 DEF Charging, Change
      <4>3. Uses(memory[s], i) + Charge(t, i) <= write[t].copy.uses[i]
        BY <3>3, <4>1, <4>2 DEF Uses, Charge
      <4>4. Uses(memory[s], i) + Charge(t, i) \in Nat
        BY <1>3 DEF Charge
      <4>5. Missing(Uses(memory[s], i) + Charge(t, i), write[t].copy.uses[i]) = 0
        BY <3>1, <4>3, <4>4, MissingIsNat
      <4>. QED  BY <1>0, <1>2, <1>6, <2>2, <4>5, PublishLoses
    <3>. QED  BY <3>2, <3>3
  <2>. QED  BY <2>1, <2>2
<1>7. \/ lost' = lost
      \/ Restart
      \/ \E t \in Tasks : Publish(t)
  BY DEF Next, vars, history, Save, SaveRaises, New, Fork, GrantCapability, RevokeCapability, Delegate,
     AddTags, AddNote, Transition, Decide, RecordUsedKind, RecordCapUse, RunHandler, HandlerRaises,
     HandlerReturns, ApplyInspectors, PropagateTags
<1>. QED  BY <1>4, <1>5, <1>6, <1>7

LEMMA LosslessInit == Init => Lossless
<1>1. Init => lost = [s \in Sessions |-> [i \in Ids |-> 0]]
  BY DEF Init
<1>. QED  BY <1>1 DEF Lossless

LEMMA AccountsAlways == Spec => [](Accounts /\ Lossless)
<1>1. Stored /\ Lineage /\ Charges /\ Accounts /\ Lossless /\ [Next]_vars =>
        Stored' /\ Lineage' /\ Charges' /\ Accounts' /\ Lossless'
  BY StoredStep, LineageStep, ChargesStep, AccountsStep, LosslessStep
<1>. QED  BY <1>1, StoredInit, LineageInit, ChargesInit, AccountsInit, LosslessInit, PTL DEF Spec

\* In every session, a rate limit is overspent by at most one call for every other request
\* in flight and one for every charge that was lost, by the calls on a capability and on
\* everything delegated from it together, across restarts; and as long as the writes of a
\* session do not overlap no charge of it is lost.
THEOREM OverspendIsBoundedAlways == Spec => []OverspendIsBounded
<1>1. ASSUME Stored, Accounts, Lossless PROVE OverspendIsBounded
  <2>1. SUFFICES ASSUME NEW s \in Sessions, NEW c \in minted, c.limit # None
                 PROVE  /\ ran[s][c.id] < c.limit + Cardinality(Tasks) + lost[s][c.id]
                        /\ s \notin overlapped => lost[s][c.id] = 0
    BY DEF OverspendIsBounded
  <2>2. /\ ran[s][c.id] \in Nat /\ lost[s][c.id] \in Nat /\ c.limit \in Nat /\ c.id \in Ids
        /\ Cardinality(Paid(s, c.id)) \in Nat /\ Cardinality(Owing(s, c.id)) \in Nat
    BY <1>1, <2>1, AccountNumbers DEF Stored
  <2>3. ran[s][c.id] + Cardinality(Paid(s, c.id)) + Cardinality(Owing(s, c.id))
          < c.limit + Cardinality(Tasks) + lost[s][c.id]
    BY <1>1, <2>1 DEF Accounts, Account
  <2>4. s \notin overlapped => lost[s][c.id] = 0
    BY <1>1, <2>2 DEF Lossless
  <2>. QED  BY <2>2, <2>3, <2>4, TasksCount
<1>2. Stored /\ Accounts /\ Lossless => OverspendIsBounded
  BY <1>1
<1>. QED  BY <1>2, StoredAlways, AccountsAlways, PTL

=============================================================================
