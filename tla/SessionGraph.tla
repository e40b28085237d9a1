---------------------------- MODULE SessionGraph ----------------------------
(***************************************************************************)
(* The session graph (session/graph.py) under the tool calls and operator  *)
(* requests of the daemon.                                                 *)
(*                                                                         *)
(* Every method of the graph that changes a session reads it from memory,  *)
(* makes a changed copy, awaits a thread that writes the copy to the       *)
(* store, and then puts the copy into memory: Begin, Save and Publish.     *)
(* There is no lock.  A tool call (ToolClient._call_tool) decides on a     *)
(* snapshot and goes through several such writes, one of them a copy of    *)
(* its snapshot.  A restart loads memory from the store.                   *)
(*                                                                         *)
(* A capability's rate limit stands for every dimension that a delegation  *)
(* clamps to its parent's; the model spans one rate window, and its        *)
(* sessions are strict and cautious, so that a refused call does not run.  *)
(***************************************************************************)
EXTENDS Naturals, FiniteSets

CONSTANTS
  Sessions, Root,  \* session ids, and the one there is at first
  Tasks,           \* requests in flight
  Ids,             \* capability audit ids
  Kinds, Labels, Notes,
  Limits,          \* the rate limits of the capabilities granted
  MaxDepth,        \* max_delegation_depth()
  MaxOps,          \* bound on the requests
  None

ASSUME GraphAssumption ==
  /\ Root \in Sessions
  /\ IsFiniteSet(Tasks) /\ Tasks # {}
  /\ Limits \subseteq Nat
  /\ MaxDepth \in Nat /\ MaxOps \in Nat
  /\ None \notin Sessions \cup Ids \cup Nat

-----------------------------------------------------------------------------
\* Capabilities.

Capability ==
  [id : Ids, kind : Kinds, parent : Ids \cup {None}, depth : Nat, limit : Nat \cup {None},
   revokedBy : SUBSET Kinds]

\* A mistake: a delegation that asks for no limit has none.
Unclamped(l, m) == l # None /\ m # None => l <= m

AtMost(l, m) == m # None => l # None /\ l <= m

HasParents(set, caps) == \A k \in set, p \in caps : k.parent = p.id => p \in set

\* The capability and its ancestors, as far as they are in the set.
Chain(caps, c) == {k \in caps : \A set \in SUBSET caps : c \in set /\ HasParents(set, caps) => k \in set}

\* _capability_descendant_ids
Descendants(caps, id) ==
  IF id \in {c.id : c \in caps} THEN {c \in caps : id \in {k.id : k \in Chain(caps, c)}} ELSE {}

-----------------------------------------------------------------------------
\* Sessions.

Statuses == {"active", "paused", "aborted"}

\* notes stands for the fields that no step reads: turns, artifacts, prompts, mode.
Record ==
  [caps : SUBSET Capability, revoked : SUBSET Ids, uses : [Ids -> Nat], used : SUBSET Kinds,
   labels : SUBSET Labels, status : Statuses, notes : SUBSET Notes, parent : Sessions \cup {None}]

NewSession(caps, labels, notes, parent) ==
  [caps |-> caps, revoked |-> {}, uses |-> [i \in Ids |-> 0], used |-> {},
   labels |-> labels, status |-> "active", notes |-> notes, parent |-> parent]

\* What each method does to a session.
Changes ==
  [op : {"create"}, arg : Record]
    \cup [op : {"grant"}, arg : Capability]
    \cup [op : {"revoke", "tear", "use"}, arg : Ids]
    \cup [op : {"kind"}, arg : Kinds]
    \cup [op : {"tags"}, arg : SUBSET Labels]
    \cup [op : {"status"}, arg : Statuses]
    \cup [op : {"note"}, arg : Notes]

Change(op, arg) == [op |-> op, arg |-> arg]

Apply(change, r) ==
  CASE change.op = "create" -> change.arg
    [] change.op = "grant"  -> [r EXCEPT !.caps = @ \cup {change.arg}]
    [] change.op = "revoke" -> [r EXCEPT !.revoked = @ \cup {change.arg}]
    [] change.op = "tear"   -> [r EXCEPT !.revoked = @ \cup {change.arg},
                                         !.caps = @ \ Descendants(@, change.arg)]
    [] change.op = "use"    -> [r EXCEPT !.uses[change.arg] = @ + 1]
    [] change.op = "kind"   -> [r EXCEPT !.used = @ \cup {change.arg}]
    [] change.op = "tags"   -> [r EXCEPT !.labels = @ \cup change.arg]
    [] change.op = "status" -> [r EXCEPT !.status = change.arg]
    [] change.op = "note"   -> [r EXCEPT !.notes = @ \cup {change.arg}]

Write == [session : Sessions, copy : Record, change : Changes, saved : BOOLEAN]

Call ==
  [session : Sessions, snapshot : Record, cap : Capability, todo : SUBSET Capability,
   step : {"kind", "charge", "handler", "inspect", "tags"},
   raised : SUBSET Labels, tags : SUBSET Labels]

ASSUME NoneIsNoRecord == None \notin Record \cup Write \cup Call

-----------------------------------------------------------------------------
\* The decision about a call, as far as it rests on the session.

Exhausted(r, c) == c.limit # None /\ r.uses[c.id] >= c.limit

\* A mistake: the ancestors are not asked.
InertAlone(r, c) == c.id \in r.revoked

IsCascadedInert(r, c) ==
  \/ \E k \in Chain(r.caps, c) : k.id \in r.revoked \/ Exhausted(r, k)
  \/ \A k \in Chain(r.caps, c) : k.parent # None

Allows(r, c) == ~Exhausted(r, c) /\ ~IsCascadedInert(r, c) /\ c.revokedBy \cap r.used = {}

-----------------------------------------------------------------------------
VARIABLES
  memory,     \* graph._sessions
  disk,       \* the sessions table
  write,      \* the write of a task that is not published yet
  call,       \* the tool call a task is in
  ops,        \* requests begun
  minted,     \* every capability that was ever made
  told,       \* what the sessions are by the changes that were reported done
  ran,        \* how often a handler ran on the authority of a capability
  overlapped, \* the sessions on which a write began before another one ended
  lost,       \* the charges that a write of an older copy, or a restart, has undone
  firm        \* the revocations that met no other write or call of their session

vars == <<memory, disk, write, call, ops, minted, told, ran, overlapped, lost, firm>>

history == <<lost, firm>>

Writes == {t \in Tasks : write[t] # None}

WritesOn(s) == {t \in Writes : write[t].session = s}

Held(r) == IF r = None THEN {} ELSE r.caps

\* Every capability that some copy of a session holds.
Everywhere ==
  (UNION {Held(memory[s]) : s \in Sessions}) \cup (UNION {Held(disk[s]) : s \in Sessions})
    \cup (UNION {Held(write[t].copy) : t \in Writes})

TypeOK ==
  /\ memory \in [Sessions -> Record \cup {None}]
  /\ disk \in [Sessions -> Record \cup {None}]
  /\ write \in [Tasks -> Write \cup {None}]
  /\ call \in [Tasks -> Call \cup {None}]
  /\ ops \in 0 .. MaxOps
  /\ minted \subseteq Capability
  /\ told \in [Sessions -> Record \cup {None}]
  /\ ran \in [Sessions -> [Ids -> Nat]]
  /\ overlapped \subseteq Sessions
  /\ lost \in [Sessions -> [Ids -> Nat]]
  /\ firm \in [Sessions -> SUBSET Ids]

\* The sessions that were loaded: one with a capability, and perhaps its forks.
Init ==
  \E id \in Ids, kind \in Kinds, limit \in Limits, forked \in SUBSET (Sessions \ {Root}) :
    LET cap == [id |-> id, kind |-> kind, parent |-> None, depth |-> 0, limit |-> limit,
                revokedBy |-> {}]
    IN  /\ memory = [s \in Sessions |->
                       IF s = Root THEN NewSession({cap}, {}, {}, None)
                       ELSE IF s \in forked THEN NewSession({cap}, {}, {}, Root) ELSE None]
        /\ disk = memory
        /\ told = memory
        /\ minted = {cap}
        /\ write = [t \in Tasks |-> None]
        /\ call = [t \in Tasks |-> None]
        /\ ops = 0
        /\ ran = [s \in Sessions |-> [i \in Ids |-> 0]]
        /\ overlapped = {}
        /\ lost = ran
        /\ firm = [s \in Sessions |-> {}]

-----------------------------------------------------------------------------
\* A write, in its three steps.

Begin(t, s, base, change) ==
  /\ write' = [write EXCEPT ![t] = [session |-> s, copy |-> Apply(change, base),
                                    change |-> change, saved |-> FALSE]]
  /\ overlapped' = IF WritesOn(s) # {} \/ base # memory[s] THEN overlapped \cup {s} ELSE overlapped

\* _save: the thread's upsert of the row.
Save(t) ==
  /\ write[t] # None /\ ~write[t].saved
  /\ disk' = [disk EXCEPT ![write[t].session] = write[t].copy]
  /\ write' = [write EXCEPT ![t].saved = TRUE]
  /\ UNCHANGED <<memory, call, ops, minted, told, ran, overlapped, history>>

\* The upsert raises, and with it the method and the tool call it belongs to.
SaveRaises(t) ==
  /\ write[t] # None /\ ~write[t].saved
  /\ write' = [write EXCEPT ![t] = None]
  /\ call' = [call EXCEPT ![t] = None]
  /\ UNCHANGED <<memory, disk, ops, minted, told, ran, overlapped, history>>

Uses(r, i) == IF r = None THEN 0 ELSE r.uses[i]

\* How many of m charges are missing among n.
Missing(m, n) == IF m > n THEN m - n ELSE 0

\* A revocation by t is reported done while no other write and no call of the session
\* is under way, and the row is the one that it wrote.
Undisturbed(t) ==
  LET s == write[t].session
  IN  /\ write[t].change.op \in {"revoke", "tear"}
      /\ WritesOn(s) = {t} /\ disk[s] = write[t].copy
      /\ \A u \in Tasks : call[u] # None => call[u].session # s

\* self._sessions[session_id] = updated; the method returns.
PutIntoMemory(t) ==
  LET s == write[t].session
      change == write[t].change
  IN  /\ memory' = [memory EXCEPT ![s] = write[t].copy]
      /\ told' = [told EXCEPT ![s] = Apply(change, @)]
      /\ write' = [write EXCEPT ![t] = None]
      /\ lost' = [lost EXCEPT ![s] =
                    [i \in Ids |-> @[i] + Missing(Uses(memory[s], i)
                                                    + (IF change.op = "use" /\ change.arg = i THEN 1 ELSE 0),
                                                  write[t].copy.uses[i])]]
      /\ firm' = [firm EXCEPT ![s] = IF Undisturbed(t) THEN @ \cup {change.arg} ELSE @]
      /\ UNCHANGED <<disk, call, ops, minted, ran, overlapped>>

\* A mistake: the copy is put into memory before it is stored, and a crash forgets it.
PublishesFirst(t) == write[t] # None /\ ~write[t].saved /\ PutIntoMemory(t)

Publish(t) == write[t] # None /\ write[t].saved /\ PutIntoMemory(t)

-----------------------------------------------------------------------------
\* The requests.

Idle(t) == write[t] = None /\ call[t] = None

Request(t) ==
  /\ Idle(t)
  /\ ops < MaxOps
  /\ ops' = ops + 1

\* A method that finds nothing to change returns at once.
Mutate(t, s, change) ==
  /\ memory[s] # None
  /\ Apply(change, memory[s]) # memory[s]
  /\ Begin(t, s, memory[s], change)

Fresh(id) == id \notin {c.id : c \in minted}

\* A new session, or a fork: the id is new, and nobody writes to it.
Create(t, s, r) ==
  /\ memory[s] = None /\ disk[s] = None /\ WritesOn(s) = {}
  /\ write' = [write EXCEPT ![t] = [session |-> s, copy |-> r, change |-> Change("create", r),
                                    saved |-> FALSE]]
  /\ UNCHANGED overlapped

New(t) ==
  /\ Request(t)
  /\ \E s \in Sessions, p \in Sessions \cup {None} :
       /\ p # None => memory[p] # None
       /\ Create(t, s, NewSession({}, {}, {}, p))
  /\ UNCHANGED <<memory, disk, call, minted, told, ran, history>>

\* The child has the labels and the capabilities, and none of the revocations and uses.
ForkOf(r, p) == NewSession(r.caps, r.labels, r.notes, p)

Fork(t) ==
  /\ Request(t)
  /\ \E s, p \in Sessions :
       /\ memory[p] # None /\ memory[p].status # "aborted"
       /\ Create(t, s, ForkOf(memory[p], p))
  /\ UNCHANGED <<memory, disk, call, minted, told, ran, history>>

\* grant_capability: a new one, or one that exists, given again.
GrantCapability(t) ==
  /\ Request(t)
  /\ \E s \in Sessions, id \in Ids, kind \in Kinds, revokedBy \in SUBSET Kinds :
       LET cap == [id |-> id, kind |-> kind, parent |-> None, depth |-> 0, limit |-> None,
                   revokedBy |-> revokedBy]
       IN  /\ Fresh(id) \/ cap \in minted
           /\ Mutate(t, s, Change("grant", cap))
           /\ minted' = minted \cup {cap}
  /\ UNCHANGED <<memory, disk, call, told, ran, history>>

RevokeCapability(t) ==
  /\ Request(t)
  /\ \E s \in Sessions, id \in {c.id : c \in minted}, op \in {"revoke", "tear"} :
       /\ memory[s] # None /\ id \notin memory[s].revoked
       /\ Mutate(t, s, Change(op, id))
  /\ UNCHANGED <<memory, disk, call, minted, told, ran, history>>

\* The sessions from which s was spawned.
Ancestors(s) ==
  LET up[n \in 0 .. Cardinality(Sessions)] ==
        IF n = 0 THEN {s}
        ELSE {p \in Sessions : \E c \in up[n - 1] : memory[c] # None /\ memory[c].parent = p}
  IN  UNION {up[n] : n \in 1 .. Cardinality(Sessions)}

\* derive_delegated_capability, when it refuses nothing.
Delegated(parent, id, limit, revokedBy) ==
  [id |-> id, kind |-> parent.kind, parent |-> parent.id, depth |-> parent.depth + 1,
   limit |-> limit, revokedBy |-> parent.revokedBy \cup revokedBy]

Delegate(t) ==
  /\ Request(t)
  /\ \E from, to \in Sessions, id \in Ids, limit \in Limits \cup {None}, revokedBy \in SUBSET Kinds :
       /\ memory[from] # None /\ memory[to] # None
       /\ from # to /\ to \notin Ancestors(from)
       /\ Fresh(id)
       /\ \E parent \in memory[from].caps :
            /\ parent.id \notin memory[from].revoked
            /\ parent.depth + 1 <= MaxDepth
            /\ AtMost(limit, parent.limit)
            /\ Mutate(t, to, Change("grant", Delegated(parent, id, limit, revokedBy)))
            /\ minted' = minted \cup {Delegated(parent, id, limit, revokedBy)}
  /\ UNCHANGED <<memory, disk, call, told, ran, history>>

AddTags(t) ==
  /\ Request(t)
  /\ \E s \in Sessions, tags \in SUBSET Labels : Mutate(t, s, Change("tags", tags))
  /\ UNCHANGED <<memory, disk, call, minted, told, ran, history>>

\* add_turn, add_session_artifacts, set_first_use_prompts, set_enforcement_mode
AddNote(t) ==
  /\ Request(t)
  /\ \E s \in Sessions, note \in Notes : Mutate(t, s, Change("note", note))
  /\ UNCHANGED <<memory, disk, call, minted, told, ran, history>>

\* pause, resume and abort
Transition(t) ==
  /\ Request(t)
  /\ \E s \in Sessions, status \in Statuses :
       /\ memory[s] # None /\ memory[s].status # "aborted"
       /\ Mutate(t, s, Change("status", status))
  /\ UNCHANGED <<memory, disk, call, minted, told, ran, history>>

-----------------------------------------------------------------------------
\* A tool call.

\* A mistake: only a capability that has an entry in cap_uses is charged.
ChargesKnown(r, cap) == {k \in Chain(r.caps, cap) : k.limit # None /\ r.uses[k.id] > 0}

\* The rate-limited capabilities that a call uses: the matched one and its ancestors.
ToCharge(r, cap) ==
  IF cap.limit = None THEN {} ELSE {k \in Chain(r.caps, cap) : k.limit # None}

\* The session is read once; what is charged is found in that snapshot.
Decide(t) ==
  /\ Request(t)
  /\ \E s \in Sessions :
       /\ memory[s] # None
       /\ \E cap \in memory[s].caps :
            /\ Allows(memory[s], cap)
            /\ call' = [call EXCEPT ![t] =
                 [session |-> s, snapshot |-> memory[s], cap |-> cap, step |-> "kind",
                  todo |-> ToCharge(memory[s], cap),
                  raised |-> {}, tags |-> {}]]
  /\ UNCHANGED <<memory, disk, write, minted, told, ran, overlapped, history>>

At(t, step) == write[t] = None /\ call[t] # None /\ call[t].step = step

\* A write of the call, or nothing when there is nothing to change.
WriteOrSkip(t, base, change) ==
  IF Apply(change, base) = base
  THEN UNCHANGED <<write, overlapped>>
  ELSE Begin(t, call[t].session, base, change)

RecordUsedKind(t) ==
  /\ At(t, "kind")
  /\ WriteOrSkip(t, memory[call[t].session], Change("kind", call[t].cap.kind))
  /\ call' = [call EXCEPT ![t].step = "charge"]
  /\ UNCHANGED <<memory, disk, ops, minted, told, ran, history>>

\* The matched capability first, then its ancestors.
RecordCapUse(t) ==
  /\ At(t, "charge")
  /\ \E k \in call[t].todo :
       /\ \A j \in call[t].todo : j.depth <= k.depth
       /\ Begin(t, call[t].session, memory[call[t].session], Change("use", k.id))
       /\ call' = [call EXCEPT ![t].todo = @ \ {k}]
  /\ UNCHANGED <<memory, disk, ops, minted, told, ran, history>>

\* The handler runs; it may return or raise.
RunHandler(t) ==
  /\ At(t, "charge") /\ call[t].todo = {}
  /\ ran' = [ran EXCEPT ![call[t].session] =
               [i \in Ids |-> IF \E k \in Chain(call[t].snapshot.caps, call[t].cap) : k.id = i
                              THEN @[i] + 1 ELSE @[i]]]
  /\ call' = [call EXCEPT ![t].step = "handler"]
  /\ UNCHANGED <<memory, disk, write, ops, minted, told, overlapped, history>>

HandlerRaises(t) ==
  /\ At(t, "handler")
  /\ call' = [call EXCEPT ![t] = None]
  /\ UNCHANGED <<memory, disk, write, ops, minted, told, ran, overlapped, history>>

HandlerReturns(t) ==
  /\ At(t, "handler")
  /\ \E raised, tags \in SUBSET Labels :
       call' = [call EXCEPT ![t].step = "inspect", ![t].raised = raised, ![t].tags = tags]
  /\ UNCHANGED <<memory, disk, write, ops, minted, told, ran, overlapped, history>>

\* apply_inspectors writes the snapshot back, with the labels that were raised.
ApplyInspectors(t) ==
  /\ At(t, "inspect")
  /\ WriteOrSkip(t, call[t].snapshot, Change("tags", call[t].raised))
  /\ call' = [call EXCEPT ![t].step = "tags"]
  /\ UNCHANGED <<memory, disk, ops, minted, told, ran, history>>

PropagateTags(t) ==
  /\ At(t, "tags")
  /\ WriteOrSkip(t, memory[call[t].session], Change("tags", call[t].tags))
  /\ call' = [call EXCEPT ![t] = None]
  /\ UNCHANGED <<memory, disk, ops, minted, told, ran, history>>

-----------------------------------------------------------------------------
\* The daemon dies and starts: load() reads the rows.  A lone write that was stored is
\* done, although nobody was told.
Restart ==
  /\ memory' = disk
  /\ told' = [s \in Sessions |->
                IF s \notin overlapped /\ \E t \in WritesOn(s) : write[t].saved
                THEN Apply(write[CHOOSE t \in WritesOn(s) : write[t].saved].change, told[s])
                ELSE told[s]]
  /\ write' = [t \in Tasks |-> None]
  /\ call' = [t \in Tasks |-> None]
  /\ lost' = [s \in Sessions |->
                [i \in Ids |-> lost[s][i] + Missing(Uses(memory[s], i), Uses(disk[s], i))]]
  /\ UNCHANGED <<disk, ops, minted, ran, overlapped, firm>>

Next ==
  \/ Restart
  \/ \E t \in Tasks :
       \/ Save(t) \/ SaveRaises(t) \/ Publish(t)
       \/ New(t) \/ Fork(t) \/ GrantCapability(t) \/ RevokeCapability(t) \/ Delegate(t)
       \/ AddTags(t) \/ AddNote(t) \/ Transition(t)
       \/ Decide(t) \/ RecordUsedKind(t) \/ RecordCapUse(t) \/ RunHandler(t)
       \/ HandlerRaises(t) \/ HandlerReturns(t) \/ ApplyInspectors(t) \/ PropagateTags(t)

Spec == Init /\ [][Next]_vars

-----------------------------------------------------------------------------
\* Properties.

\* As long as no two writes of a session overlap, the session is what the changes
\* reported done make of it, one after another: in memory always, in the store when no
\* write is under way, and after any number of restarts.
NothingIsLost ==
  \A s \in Sessions \ overlapped :
    /\ memory[s] = told[s]
    /\ WritesOn(s) = {} => disk[s] = told[s]

\* However requests interleave, are lost and repeated, the chains of delegation that the
\* sessions hold only narrow: the kind stays, the limit and the conditions that revoke it
\* are no weaker, and the depth counts the delegations and stays within its bound.
DelegationAttenuates ==
  \A c, d \in Everywhere :
    c.parent = d.id =>
      /\ c.kind = d.kind
      /\ d.limit # None => c.limit # None /\ c.limit <= d.limit
      /\ d.revokedBy \subseteq c.revokedBy
      /\ c.depth = d.depth + 1 /\ c.depth <= MaxDepth

\* In every session, calls that are decided before their rivals are charged overspend a
\* rate limit, its descendants' calls included, but by at most one call for every other
\* task and one for every charge that was lost; and charges are lost only where writes
\* of the session overlap or, as those of the inspectors do, start from an old copy.
OverspendIsBounded ==
  \A s \in Sessions, c \in minted :
    c.limit # None =>
      /\ ran[s][c.id] < c.limit + Cardinality(Tasks) + lost[s][c.id]
      /\ s \notin overlapped => lost[s][c.id] = 0

\* Task t's call is decided.
Decides(t) == call[t] = None /\ call'[t] # None

\* A revocation that is reported done when no other write or call of the session is under
\* way holds for good: no later call of the session is decided on the authority of that
\* capability or of one delegated from it, whatever writes overlap afterwards, the
\* inspectors' among them, and after any number of restarts.  Nothing is promised of a
\* revocation that meets a write or a call: that one may be overwritten.
RevocationStopsCalls ==
  [][\A t \in Tasks :
       Decides(t) => \A k \in Chain(call'[t].snapshot.caps, call'[t].cap) :
                       k.id \notin firm[call'[t].session]]_vars

\* Session s was told that what task t's call uses is revoked.
RevokedIn(s, t) ==
  /\ told[s] # None
  /\ \E k \in Chain(call'[t].snapshot.caps, call'[t].cap) : k.id \in told[s].revoked

\* What specs/002 asks for: a revocation governs every later decision in every session.
RevocationCascades == [][\A t \in Tasks, s \in Sessions : Decides(t) => ~RevokedIn(s, t)]_vars

\* What the comment on record_used_kind in _call_tool says: the kind of a call that ran
\* stays used, so that the capabilities it revokes are denied from then on.
UseIsRemembered ==
  \A s \in Sessions : memory[s] # None => told[s].used \subseteq memory[s].used

=============================================================================
