# A TLA+ development of CapableDeputy

CapableDeputy is a daemon that runs AI agents under information-flow policy: a
session carries labels, a tool call is decided against the session's labels and
capabilities, and what policy does not allow outright waits for the operator's
approval. This directory holds TLA+ models of the parts of the daemon
(`src/src/capabledeputy`) that decide what an agent may do, and of those where the
answer depends on interleavings, crashes and lost answers; the TLC configurations that check them, and TLAPS proofs.

## Inventory

The daemon is one asyncio event loop. Handlers interleave only at `await`; blocking
work (SQLite, SMTP, files) runs in worker threads or, in a few stores, directly
on the loop. State is in SQLite files; the rest dies with the process.

| Part | State | Operations | What is hard |
|---|---|---|---|
| Email journal, `tools/native/email_journal.py` | one row per (draft, version) in the state database | `claim`, `finish`, `reconcile`, `recover_submitting`, `blocks_draft` | survives crashes; decides at-most-once |
| Reviewed release, `tools/native/email.py`, `email_delivery.py`, `daemon/approval_handlers.py`, `app.py` | drafts, mailbox sources, reviews, the SMTP thread | `reply_create`, `draft_update`, `draft_review`, `approve`, `email_send`, `deliver`, `operation_reconcile`, `startup` | three stores that disagree after a crash; state used after awaits; lost SMTP replies |
| Approval queue, `approval/queue.py` | requests by id, durable for reviews | `submit`, `approve`, `deny`, `defer`, `supersede`, expiry | decisions by several clients; expiry at every access |
| Upstream supervision, `upstream/supervisor.py` | a child process and its MCP session | `call_tool`, `read_resource`, respawn with backoff | callers that share one respawn; retry of a call that may have run |
| Turn lifecycle, `daemon/turn_lifecycle.py` | the turn record of each session, cancel scopes, turn lock | `start`, `cancel`, `status`, heartbeat | cancel against start, against completion, against a stall |
| Workstreams, `session/coordination.py` | leases, an index by session and one by client | `claim`, `ensure`, `renew`, `release`, `release_client`, `release_session`, `sweep_expired` | late heartbeats, expiry, two indexes |
| Session graph, `session/graph.py` | sessions: labels, capabilities, status, parents | `new`, `fork`, `delegate`, `add_tags`, `grant`, `revoke`, `record_cap_use`, transitions | read, await, write back |
| Override grants, `policy/overrides.py`, `daemon/override_handlers.py` | grants in memory and in a table | `override.request`, `attest`, `refuse`, `sweep`, `consume_for` from `decide()` | one use per action, dual control, failed writes, restarts under another policy file |
| Policy engine, `policy/` | none: a function of session and call | `decide`, its legs and composers | eight legs composed in order, each with carve-outs |
| Tool chokepoint, `tools/client.py` | a snapshot of the session for each call | `call_tool`, inspectors, shadow mode | accounting around an awaited handler, a snapshot written back |
| Audit log, `audit/` | a hash-chained file, rotated | `write`, `verify`, retention | rotation, restart, crash within a line |
| Managed stores, `store/lifecycle.py` | schema version of a database | `prepare_managed_db` | quarantine of a store that others refer to |
| Agent loop, onguard, LLM pool, MCP servers, substrate, CLI, TUI, macOS client | see PROJECT.json | | I/O, presentation, or driven by a model's answers |

Calls go from the client's RPC to a handler; a handler reads the session and the
queue, awaits (a store, an audit line, the operator's authentication, a worker
thread) and acts on what it read. Components share state through the session graph,
the approval queue and the journal; they call back into each other through
`cancel_check`, task groups and the lock of `SessionCoordinator`.

What makes each modelled part correct:

- policy: no composition passes a floor, the strictest leg wins once each carve-out has
  waived the approvals it is for, nothing runs without live authority unless an approval
  was really lifted, and an approval is asked for once;
- override grants: a floor is crossed once per grant and action, by the ceremony that the
  policy of the moment asks for, and never after a refusal;
- session graph: what was reported done stays where writes do not overlap, a delegation
  never exceeds its ancestors, a rate limit is overspent by less than the calls in flight
  and the charges that were lost, and a revocation that met no other write or call is
  never undone;
- workstreams: one client owns a session, and both indexes know it;
- journal: one operation per draft that was, or may have been, submitted, and no row
  rewritten;
- release: what leaves was approved to the letter, once, and the records say so after
  any crash;
- upstream: one retry, on a newer session, one respawn at a time, no server left
  behind, a lock that is always handed on, no caller left waiting;
- turns: one turn at a time, a stop is never lost, and a turn ends once and leaves
  nothing held.

## Modules

| Module | Models | Extends |
|---|---|---|
| `PolicyEngine` | `engine.decide`, the stages of `_call_tool` after it, the re-dispatch of an approved action | |
| `SessionGraph` | `SessionGraph`, `SessionStore`, delegation, the writes of a tool call | |
| `OverrideGrants` | `OverrideGrantStore`, `OverridePolicies.get`, the override handlers, the use of a grant by `decide()` | |
| `Workstreams` | `WorkstreamCoordinator` | |
| `EmailJournal` | `EmailOperationJournal` | |
| `EmailRelease` | draft box, reviews, approval handler, `email.send`, SMTP client, startup | `EmailJournal` |
| `ReleaseLedger` | what the release promises (abstract specification) | |
| `UpstreamSupervisor` | `LiveSession`, `UpstreamManager.unload_server`, `with_timeout` | |
| `TurnLifecycle` | `TurnLifecycleManager`, `session.send`, `session.cancel`, the turn lock | |
| `PolicyEngineProofs`, `OverrideGrantsProofs`, `SessionGraphProofs`, `EmailJournalProofs`, `EmailReleaseProofs`, `UpstreamSupervisorProofs`, `TurnLifecycleProofs`, `WorkstreamsProofs` | the theorems | the module they are about |
| `MC_PolicyEngine`, `MC_OverrideGrants`, `MC_SessionGraph`, `MC_EmailRelease`, `MC_UpstreamSupervisor`, `MC_TurnLifecycle`, `MC_Workstreams` | model values and requests for TLC | the module they run |

An action is what a task does from one `await` to the next. The journal's methods are
one step each, since every one runs in a `BEGIN IMMEDIATE` transaction, and so are the
operations of the workstreams, which run under a lock without an `await`. Each module
also holds, next to the operator it spoils and under a comment that says so, the
mistakes its properties were tried against (`PROJECT.json`, "mutants"). No
specification uses them.

### PolicyEngine

A request is what `decide()` is given for one tool call, with each input reduced to
what the code asks of it: a capability to whether it matches, is expired, exhausted,
revoked by a prior use or destructive, and to its place in a chain; a rule to its
outcome and the categories it needs; an envelope to its two ends. Kinds stand for
classes of kinds: `write` for those that a first use prompts for and that neither egress
nor destroy. `Decide` is the
function, in the order of the code: the refusals that precede the capabilities
(`Refusals`), `DecideLegacy`, `ComposeWithV2`, `ComposeWithReversibility`,
`ComposeWithEnvelope`, `ComposeWithConflictInvariant` for the two floors, and
`MaybeFirstUseEscalation`. Capabilities and labels are frozensets, and where the code
takes the first of them the model takes any: `Decide` is the set of results that are
possible.

`CallTool` decides and passes the result through the inspectors, shadow mode and the
source floor (`Chokepoint`); `grant` is an override grant that `decide()` spends. The
agent may make the call again (`Retry`). A call that waits for approval may be
approved (`Approve`): it is dispatched again from a fresh session with one capability
and `already_approved` (`Redispatch`).

### OverrideGrants

`memory` is the dictionary of the store and `disk` its table. `Put` is `add` and `update`:
memory first, then the table, where a group grant is not written and the write of
another may raise (`ok`); the handler, or `decide()`, then raises with memory changed.
The actions are `request_override`, `request_group_override`, `attest_override`,
`override_refuse`, `override_sweep`, `Decide` (the grant is spent and the call allowed),
`Tick` and `Restart`, which loads the table, maybe under another policy file. Nothing
awaits within one of them. What a handler refuses without a change has no step. `ceremony`,
`attested`, `refused` and `crossings` are history: who asked and confirmed under which
policy, which refusals were reported, and which calls a grant allowed. An action stands
for the kind and the target of a call; friction texts, reasons and the audit events are
left out.

### SessionGraph

Every mutator of the graph reads a session, makes a changed copy, awaits the thread
that writes the copy to SQLite, and puts the copy into `_sessions`: `Begin`, `Save`,
`Publish` (or `SaveRaises`, which ends the request, and the call it belongs to, with
nothing changed). There is no lock. `memory` and `disk` are the two places, `write` the copy a
task has under way, `call` the tool call it is in. A call decides on a snapshot
(`Decide`), records the kind and the uses of the capability and its ancestors
(`RecordUsedKind`, `RecordCapUse`), runs the handler, and labels the session twice: the
inspectors by writing a changed copy of the snapshot (`ApplyInspectors`), the tool's own
labels through `add_tags` (`PropagateTags`). The requests are `New`, `Fork`,
`GrantCapability`, `RevokeCapability`, `Delegate`, `AddTags`, `AddNote` (the fields that
no other step reads) and `Transition`; `Restart` loads memory from disk.

`told`, `ran`, `overlapped`, `lost` and `firm` are history: what the sessions are by the
changes that were reported done, how often a capability's authority was used, on which
sessions two writes, or a write from a stale copy, have met, how many recorded uses a
publication or a restart has dropped, and which revocations were reported done when the
session had no other write and no call under way. `NothingIsLost` speaks of the sessions
that are not `overlapped`; the other properties speak of all. The rate limit stands for every dimension that a delegation clamps.

### Workstreams

`workstreams` is the table, `sessionIndex` and `clientIndex` the two indexes; an
operation is a function of the three (`Coordinator`, `Become`), built from `Drop`,
`Retire` and `Store` as the code is. A lease is the number of ticks it has left, a
token is right, wrong or missing. `late` records that somebody renewed or released a
workstream that was retired already.

### EmailJournal

`ops[d][v]` is the row of version `v` of draft `d`: its status, the content it was
claimed with (the envelope hash) and its reconciliation. `claim` creates a row,
returns the one there is, or raises (`ClaimCreates`, `ClaimReturnsExisting`, neither);
`finish` changes a row only out of `submitting`; `reconcile` settles an unknown
outcome, once; `recover_submitting` is the UPDATE at startup.

### EmailRelease

State: `drafts` (version, content, whether it is still there), `origin` (labels and
liveness of the session and mailbox message behind a draft), `reviews` (the durable
approval requests), `exec` (how far the handler of an approval and its SMTP thread
have come; it dies with the daemon), `wire` (what the SMTP server accepted), `daemon`
and `cursor` (startup), and the journal's `ops`.

The path of an approval is `approve_locked`, `BeginAuthentication`, `Authenticated`,
`email_send` (the claim) or `email_send_existing`, `SmtpData`, `SmtpAccepts`,
`deliver`, `FinishOperation`, `SettleExecution`. It may leave that path by a refused
authentication, an exception before the claim (`StoppedBeforeClaim`), a failed audit
write (`ApproveRaises`), a cancellation before the thread starts
(`InterruptSubmission`), an exception after the answer (`ExecutionRaises`), or
`Restart`. Between any two of these the agent edits the draft (`draft_update`), sends
it itself (`email_draft_send`) or asks for another review (`email_draft_review`), the
operator denies, defers, withdraws by editing (`withdraw_draft_reviews`) or reconciles
(`email_operation_reconcile`), a review expires, and the origin changes
(`OriginChanges`). `SmtpAccepts` is external: the server may accept and its answer be
lost, which `DeliveryResult` cannot tell from a refusal.
`email_operation_reconcile` assumes that the operator reports what the provider
confirms: an operator who reports an accepted message as not sent makes a second send
possible, and nothing in the code could prevent that.

`Restart` keeps what is durable and runs `recover_submitting`; then `StartupReview`
takes the reviews one by one (`App.startup`) and `StartupEnds` serves requests again.

`ReleaseLedger` has two variables, what was consented to and what was sent, and two
steps. The refinement maps consent to the approved reviews and sent to `wire`.

### UpstreamSupervisor

State: `session` (`self._session`; sessions are numbered in the order they are
spawned, so an identity test compares numbers), `alive` (the sessions whose server
runs), `holder` and `waiters` (`_respawn_lock`, an `anyio.Lock`, external), `inbox`
(what was handed to the owner task of an HTTP session), `call`, `answer` and `ran` for
each call, `unload`, and `transport`, which is chosen at the start. A call starts in its caller's task (stdio) or in the owner's
(`Dispatch`, `Serve`), makes a first attempt, and after an error that looks like death
(`Break`) waits for the lock and respawns (`LockRespawns`, `TearDown`,
`SpawnSucceeds`, `SpawnFails`), takes the session that another caller spawned
(`LockReuses`) or fails the assertion (`LockAsserts`). `RemoteCancel` is the HTTP
client's cancellation, which respawns without the lock. Deadlines cancel the call in
its caller's task, or only the wait for it. The server executes, replies, refuses or
dies at any time. Backoff delays and the contents of calls are left out.

### TurnLifecycle

One session. State: the manager's dictionaries (`status`, `asked` =
`_cancel_reasons`, `active` = `_active_by_session`, `scope` = `_cancel_scopes`), the
task of each turn (`at`, `tool`, `reported`), its heartbeat watch (`watch`), the turn
lock (`holder`), the cancellation flag, and the requests of `session.send` (`send`,
`inputs`). A turn passes `start`, `acquire_turn`, `SetRunning`, `RegisterScope`,
`EnterScope`, the agent loop (`ToolDispatched`, `ToolReturned`), one of
`TurnCompleted`, `TurnInterrupted`, `Raise` and `Cancelled`, `RecordOutcome` or
`RecordFailure`, and `Cleanup`; `cancel`, `session_cancel` and the heartbeat
interfere anywhere. The audit write that precedes an interrupted outcome may raise
(`AuditRaises`): in the loop, in the except branch, which then runs the finally branch
with an exception on its way out (`Failing`), or in the finally branch itself. An
exception that leaves the task (`broken`) cancels the daemon's task group; the model
leaves the other tasks as they are, and the liveness properties end there. What the agent loop does between these is not modelled.

## Runs

| Run | Specification and instance | Result |
|---|---|---|
| `policy` | `Spec`; the request families of `MC_PolicyEngine` over three categories and three capabilities | 4 properties hold, 134,383 states |
| `policy_shadow` | the same | `ShadowNeedsCapability` is violated |
| `overrides` | `Spec`; 2 grants, 2 sessions, 2 actions, 2 principals, 3 policy files, a clock of 2 | 4 hold, 1,487,580 states up to symmetry |
| `session_graph` | `Spec`; 2 sessions, 2 requests in flight, 3 capability ids, 3 requests in all | 4 hold, 2,220,684 states |
| `session_fork` | `Spec`; 1 request at a time, 2 ids | `RevocationCascades` is violated |
| `session_use` | the same | `UseIsRemembered` is violated |
| `email_release` | `FairSpec`; 1 draft, 2 versions, 2 reviews, 2 restarts, a releasable and a non-releasable label | 14 hold, 150,169 states |
| `email_release_startup` | `Spec` | `StartupSucceeds` is violated |
| `upstream` | `RespondingSpec`, both transports, 2 calls | 6 hold, 27,411 states |
| `turns` | `SilentSpec`; 2 turns, one with a heartbeat, 2 messages | 5 hold, 206,492 states |
| `turns_stop` | `FairSpec`; 1 turn with a heartbeat | `StopTakesEffect` is violated |
| `workstreams` | `Spec`; 2 sessions, 2 clients, 3 workstreams | 3 hold, 7,201 states up to symmetry |

The type invariant of the release is part of its run; those of the other models are proved.

What the passing runs show:

- `policy`: whatever the labels, rules, dial, reversibility, capabilities and
  inspectors of a call are, an egress of untrusted, health or financial data is denied
  unless an override grant, shadow mode or a ratified rule for the operator's own
  categories says otherwise (`FloorsHold`); the engine's decision is exactly the strictest
  of what the legs ask for, once each of three carve-outs has waived the required
  approvals of the legs it is for (`MostRestrictiveWins`; `Demands` is the list, and it
  waives for optimistic execution what the code waives, see Findings); an allowed call has
  a matching capability that is live, and only where an approval was really lifted may it
  be the wrong one for a destructive action, or exhausted with escalation
  (`AllowIsBacked`); and an approved action is not held for approval again (`ApprovalIsNotAskedAgain`).
- `overrides`: whatever writes fail and however often the daemon restarts, a grant allows
  each of its actions once (`OneCrossing`), in time, in its session, and with the
  principals that its policy named when it was asked for (`CrossingIsAuthorized`); a
  refusal that was reported holds in every later daemon (`RefusalHolds`); and a single
  grant whose last write succeeded is what a restart loads (`RestartKeepsGrants`).
- `session_graph`: changes that do not overlap are all there, in memory and after any
  restart (`NothingIsLost`); a delegated capability is within its ancestors wherever a
  copy of it is (`DelegationAttenuates`); in every session, calls run past a limit by fewer
  than the tasks plus the charges that were lost, and charges are lost only where writes
  overlap or start from an old copy (`OverspendIsBounded`); a revocation that was reported
  done while nothing else of the session was under way is never overwritten, so that no
  later call is decided on it or on what was delegated from it, whatever overlaps
  afterwards (`RevocationStopsCalls`). The others may be overwritten, see Findings.
- `email_release`: however edits, reviews, decisions, lost answers and crashes
  interleave, a draft is accepted at most once (`AtMostOnce`), as approved and with
  labels this path may release (`SentAsReviewed`); it is not edited once it is out
  (`SentDraftIsFrozen`) and is discarded in the version that went out
  (`DiscardsWhatWasSent`); the journal's definite outcomes are true
  (`JournalTellsTheTruth`), so is "not submitted" (`NotSubmittedIsTrue`), and no
  approval is without a trace (`ApprovedIsAccountedFor`). `ImplementsLedger` is the
  refinement of `ReleaseLedger`. Submissions settle and approvals are answered for,
  across crashes (`SubmissionSettles`, `ApprovalResolves`, which excepts the two cases
  where the code leaves an approval alone until the next start); the journal is used as
  `JournalSpec` says (`JournalIsUsedAsSpecified`), with `BlockingIsNewest` and
  `JournalIsHistory`.
- `upstream`: `RetryOnce`, `RetriesOnNewerSession`, `RespawnIsSerialized`, `OneServer`,
  `LockIsPassedOn` (no way out of a respawn loses the lock or a caller in line for it)
  and `CallEnds`. With HTTP the respawn after a remote failure takes no lock; that it
  stays serialized is due to the owner task.
- `turns`: one turn or message at a time works for the session (`OneTurnAtATime`); a turn
  whose task returns has an outcome and holds nothing (`EndsClean`); one cancelled before
  its loop never enters it (`StoppedBeforeStart`); an outcome is not replaced
  (`OutcomeIsFinal`); and every turn ends unless a failed audit write takes the daemon
  down (`EveryTurnEnds`).
- `workstreams`: the session index names nothing retired and nothing of another session
  (`IndexIsSound`), `release_client` finds all that a client has
  (`ClientIndexIsComplete`), and unless a retired workstream was renewed or released,
  indexes and active workstreams agree (`OneOwner`).

The release, the upstream and the turns may come to rest (a bounded number of calls,
turns or reviews is used up, or the daemon was not started again), so deadlock is not
checked there; that nobody waits for ever is what the liveness properties say. The other
models always have a step.

### Bounds

- `MC_PolicyEngine` has the shapes of the tools that the repository registers and two
  families of requests. `Composed` is about how the legs meet: every combination of
  labels, provenance, destructive and exhausted capabilities, rule sets (with shadow,
  unratified and floor-crossing rules) and profile. `Gated` adds each early refusal,
  chains of capabilities (broken, cyclic, revoked), inspectors, shadow mode and the
  source floor. Other inputs are fixed in each family; the theorems cover all
  combinations.
- Two sessions and two requests in flight give every pair of overlapping writes; three
  requests are a grant or delegation, a revocation or another call, and a call; three
  ids are a root, a delegated capability and another. A limit of one is the one that
  two calls can overspend.
- Two grants are two that allow the same action; two principals are an invoker and an
  attester; the three policy files have a floor under dual control, one left to the
  personal operator and one that is closed. An expiry of two and a clock that ends at two
  give grants that are alive, in their last moment and over.
- Two sessions and three workstreams are an owner, the one it replaced, and one that is
  bound elsewhere; a lease of one tick expires and is renewed.
- `MaxVersion` 2 and `MaxReviews` 2 give two reviews of one version and one of each of
  two versions, which are all the ways in which two approvals compete for a draft;
  operations of different drafts share nothing, so one draft is enough.
- `MaxRestarts` 2 is a crash during the startup after a crash.
- Two calls are the caller that respawns and the one that waits for it; two turns and
  two messages are one of each kind with the lock and one that meets it.
- The safety properties of these runs are also proved, for any number of drafts,
  versions, reviews, restarts, calls, turns, sessions, capabilities, grants and workstreams.

### Fairness

- Release (`Fairness`): a handler that has begun goes on, the SMTP thread answers or
  fails (its socket has a timeout of 30 s), and a startup that has begun goes on.
  Neither the operator, nor the agent, nor a restart is obliged to come.
- Upstream: the daemon's tasks go on, and the lock is handed to its waiters in order
  (`DaemonRuns`). `RespondingSpec` adds an upstream that answers or breaks in the end.
- Turns (`FairSpec`): the tasks go on, and the agent loop ends, since it has a limit
  of iterations and each of its calls a timeout. Nothing is assumed of clients: one
  may acknowledge for ever. `SilentSpec` adds that the heartbeat of a client times
  out, which is the case in which the code promises to end the turn.
- The other models state no fairness: their properties are about what is never done.

## Findings

With a run:

1. `policy_shadow`: a shadow session that holds no matching capability runs a call
   that one of the early refusals denies, since those name a rule and the rewrite
   takes every refusal that names one (`policy_hooks.py:67`).
2. `session_fork`: revocations are kept per session and a fork copies the capabilities
   without them, so the child uses what was revoked in its parent (`graph.py:404`).
3. `session_use`: the inspectors write back a session that was read before the call,
   and overwrite the used kind and the capability use that the call has recorded
   (`policy_hooks.py:340`).
4. `email_release_startup`: an approved review without evidence whose version the
   journal refuses makes `App.startup` raise, at every start (`app.py:305`). It takes an
   edit between approval and claim, a second approval and a crash; it also happens
   when the state database is restored or quarantined without the review database.
5. `turns_stop`: a stop that comes while the turn is queued is undone by
   `_set_status("running")`; the heartbeat watch then keeps the turn, and the lock, as
   long as the client acknowledges (`turn_lifecycle.py:339`).

The models also show the following, for which no run is kept:

- Policy. Optimistic execution recognises the default of the rules by `suggest` and a
  required approval, so it also lifts the approval that an exhausted rate limit or a
  destructive action asks for (`engine.py:1640`; its docstring at `engine.py:1609`: "only
  relaxes a base REQUIRE_APPROVAL when the base is the v2 default"). `Demands` states it,
  as the waiver of the capability's leg, and `AllowIsBacked` has its consequence: an
  exhausted or non-destructive capability may back such a call. A rule that crosses the health
  floor silences the financial floor too, as only the first floor is reported. An
  inspector may relax the approval that a floor asks for, as it runs after the engine.
  Which capability is matched, and which category the dial looks up, depends on the
  order of a frozenset. Without rules the engine ignores `already_approved`. A
  destination that a purpose binds is unbound in the re-dispatch. `ONE_SHOT` expiry is
  not enforced.
- Sessions. `call_tool` does not look at the status of the session. The liveness check
  of `delegate` does not walk the chain. A capability delegated to a session that is
  not a fork is dead at once, since its parent is not in that session. Concurrent
  mutators of one session lose updates. Two of these losses matter for authority. A
  recorded use is lost when two writes overlap (`graph.py:554`) or the inspectors write
  the snapshot back (`policy_hooks.py:340`), and calls in flight are decided on the same
  count: more calls run than `max_uses`, although `RateLimit` says "at most `max_uses`
  dispatches" (`capabilities.py:370`); `OverspendIsBounded` says by how many. A revocation
  is lost when a write or a call that read the session before it is published after it,
  although `revoke_capability` says that the id set "is still retained" and that "any
  descendant matching this ancestor at decision time fails" (`graph.py:678`);
  `RevocationStopsCalls` says which revocations are safe.
- Override grants. `override.refuse` marks a grant in any state, a consumed one too
  (`override_handlers.py:116`; `GrantState` calls CONSUMED terminal), and a sweep leaves
  pending grants as they are. A write that fails in `decide()` or in a refusal leaves
  memory ahead of the table, and a restart brings the grant back; a request that answers
  with an error for that reason has left a usable grant in memory. `decide()` does not
  compare the floor that a grant was asked for with the one it crosses. No handler calls
  `request_group_override`.
- Workstreams. `renew` does not look at the status, so a late heartbeat revives a
  workstream that was released or expired beside the session's new owner
  (`coordination.py:286`). The first renewal of a lease that ran out raises and the second one
  revives it; a late release drops the index entry of the workstream that replaced it;
  an operator's takeover retires the current workstream even when the id asked for is
  bound elsewhere and the claim fails.
- Upstream. A caller that waited for another caller's failed respawn meets an
  `AssertionError` instead of `UpstreamDead` (`supervisor.py:426`). A call in flight
  spawns the server again while or after `unload_server` stops it, and nothing owns
  that server (`supervisor.py:275`). With streamable_http the deadline ends the
  caller's wait, not the operation, and later calls queue behind it
  (`supervisor.py:303`). With stdio, a deadline that falls in the first attempt reaches
  the caller as `UpstreamCallFailed`, not as the `OperationTimeoutError` that
  `reliability/timeout.py:6` describes.
- Turns. A turn that fails to get the lock removes the cancellation flag of the one
  that has it (`turn_lifecycle.py:407`). `completed` is emitted before the outcome is
  recorded, and `interrupted` may follow it (`turn_lifecycle.py:534`). An audit write that
  raises in the finally branch skips the release of flag and lock
  (`turn_lifecycle.py:406`); there and in the except branch the exception leaves the task
  and cancels the task group that serves the daemon (`server.py:75`, `server.py:176`).
  A message queued
  behind a streaming turn is run after the next `session.send`, not when that turn
  ends.

## Proofs

Most theorems are of the form `Spec => []P` or `Spec => [][A]_vars`; three compare two
evaluations of `Decide`, and two are about abstract specifications. All hold for any values of
the constants that satisfy the named assumptions of the module (bounds are natural
numbers, the special values are not members of the sets, heartbeats belong to turns,
requests are typed). The proofs have one lemma per action or group of
actions; the last step is temporal.

- **PolicyEngineProofs**: `TypeCorrect`, `FloorsHoldAlways`, `MostRestrictiveWinsAlways`,
  `AllowIsBackedAlways`, `ApprovalIsNotAskedAgainAlways`. Each composer has a lemma
  that says what it can do to a decision (`Ratchet` takes the stricter of two; a
  carve-out turns a required approval into allow); the theorems follow the order of
  composition. `MostRestrictiveWinsAlways` shows leg by leg that what has been composed so
  far is the strictest of the demands met so far, and that a waiver which the code applies
  to the composed decision is the waiver of the legs before it. The invariant adds to the types that what was decided is a result of
  `Decide` and of `Chokepoint` for the current request (`Provenance`). Three theorems
  compare what `Decide` says of two requests, for every request: an approval turns a
  required approval into allow and changes nothing else (`ApprovalLiftsOnlyApproval`), and
  neither more revocations nor more provenance levels give a weaker decision
  (`RevocationNeverLoosens`, `TaintNeverLoosens`; the latter with the same rules holding,
  since a rule may match on provenance, and could then be the one that allows). They
  follow the composition with a relation between the two results that every composer
  keeps (`ComposeLifts`), or show that the refusals only grow (`MoreRefusals`).
- **OverrideGrantsProofs**: `TypeCorrect`, `OneCrossingAlways`,
  `CrossingIsAuthorizedAlways`, `RestartKeepsGrantsAlways`, `RefusalHoldsAlways`. The
  invariant speaks of every copy of a grant, in memory and in the table, since a restart
  makes the one of the other: each is of what was asked for and confirmed
  (`Genuineness`), one that has allowed an action cannot come to allow it again
  (`CrossingsAreSpent`), a refused one stays so (`RefusedStay`), one that nobody asked for
  is nowhere (`AskedFor`), and the table holds single grants only (`TableHoldsSingles`).
  `CrossingsAreSpent` is what a failed write threatens: the table may still have a grant
  that memory has spent, but then no call was allowed by it.
- **SessionGraphProofs**: `TypeCorrect`, `NothingIsLostAlways`,
  `RevocationStopsCallsAlways`, `DelegationAttenuatesAlways`,
  `OverspendIsBoundedAlways`. The invariant has these parts. A session without
  overlapping writes has at most one, made from what is in memory (`Stored`). A firm
  revocation is in memory, on disk, in every pending copy and in every snapshot of its
  session (`Firm`): it is so when it becomes firm, because nothing else was under way, and
  every later copy is made from one of these. Every
  capability in memory, on disk, in a pending copy or in a snapshot was minted, and
  each has the parent it was derived from (`Lineage`). What a call still has to charge
  belongs to its snapshot (`Charges`). For each capability, the uses recorded, those lost
  and the charges owed bound what ran, and stay below the limit plus the tasks and the
  losses (`Accounts`). Without overlapping writes nothing is lost (`Lossless`).
  `Chain` is defined as the least set that is closed under parents, so that induction
  along a chain is instantiation with a closed set.
- **WorkstreamsProofs**: `TypeCorrect`, `IndexIsSoundAlways`,
  `ClientIndexIsCompleteAlways`, `OneOwnerAlways`: each is inductive with the types and
  the soundness of the session index, through lemmas about `Drop`, `Retire` and `Store`.
- **EmailJournalProofs**: `JournalTyped`, `OneBlockingOperationAlways`,
  `BlockingIsNewestAlways`, `JournalIsHistoryAlways`. That one operation blocks is not
  inductive alone: a claim is refused for newer rows as well, so the invariant says
  that the blocking row is the newest, and that only unknown outcomes are reconciled.
- **EmailReleaseProofs**: the seven safety properties of `email_release`, type
  correctness and two refinements: the release implements `ReleaseLedger`
  (`ReleaseImplementsLedger`), and its use of the journal implements `JournalSpec`
  (`JournalIsUsed`), so that what is proved of the journal alone holds inside the release
  (`JournalPromisesHold`). `LedgerPromises` says what the abstract ledger is worth: it
  alone implies that a draft goes out at most once and only with consent. The inductive
  invariant `Inv` relates the
  volatile executions to the durable stores: an execution past the claim has the
  blocking row of its draft (`ExecutionsMatch`, `SubmissionsMatch`), of which there is
  one (`OneSubmitter`); what was accepted blocks its draft (`AcceptedBlocks`); each
  stage tells the truth about `wire` (`StagesAreTrue`, `RowsAreTrue`); and startup has
  left evidence for every review it has passed (`StartupProgress`).
- **UpstreamSupervisorProofs**: `TypeCorrect`, `RetryOnceAlways`,
  `RetriesOnNewerSessionAlways`, `RespawnIsSerializedAlways`, `OneServerAlways`,
  `LockIsPassedOnAlways`. The invariant says that the session is the newest spawned or none (`CurrentIsNewest`),
  what a call at each place knows of sessions, lock and inbox (`CallsInv`), that the
  lock holder or the head of the inbox is the only one to respawn (`OneAtATime`), and
  that no server runs while it does (`NoServerWhileRespawning`). `LockIsPassedOn` is
  inductive with the types: each step asks for the lock, passes it on, goes on with or
  without it, or gives up (`AskKeeps`, `ReleaseKeeps`, `HoldKeeps`, `AbandonKeeps`). It is
  the safety part of `CallEnds`.
- **TurnLifecycleProofs**: `TypeCorrect`, `OneTurnAtATimeAlways`, `EndsCleanAlways`,
  `StoppedBeforeStartAlways`, `OutcomeIsFinalAlways`. `TurnInv` says for every place of
  a task what its record, scope, watch and lock are (`RecordFits`, `ScopeFits`,
  `WatchFits`, `LockFits`), with the places that a raising audit write leads to.

Only model-checked: liveness (`SubmissionSettles`, `ApprovalResolves`, `CallEnds`,
`EveryTurnEnds`), which is out of the prover's reach, and the violations.

## What is not modelled

- `email.draft_send`, the agent's own way to send, does not use the journal; the model
  has it discard the draft, and `AtMostOnce` counts submissions of reviewed replies.
  The record-only outbox is left out.
- The purchase, destructive and elicitation branches of the approval handlers; sibling
  groups, patterns and signatures of the queue.
- Policy: how a rule, a pattern, an amount or a binding matches (a request says whether
  it does), the loading of policy files, recovery steps.
- Sessions: purposes (the capabilities a session is born with enter as grants), the
  migrations of the store, reference handles, declassifiers and provenance records.
- The startup of all upstreams, health records and the labelling adapter; a child
  whose spawning a deadline cuts short belongs to no session and is not followed.
- Partial output, replayable events and attachments of turns. The notification of
  subscribers (`_emit`) does not raise in the model: `Daemon.publish` catches the errors
  of their streams. Were it to raise after `interrupted` was recorded, `_finish_error`,
  which does not look at the status, would replace that outcome. What the other tasks do
  while the daemon goes down after an exception is not followed.
- The sending account is compared with the reviewed one in the check before the claim;
  the code compares it once more in `deliver`, after the claim (`email_delivery.py:269`),
  where the model has a failure before submission without saying of which kind.
- The parts of the inventory that `PROJECT.json` lists as not modelled, with reasons.
  Most of the repository's lines are among them: the CLI, the TUI, the macOS client and
  the MCP servers present or transport what the modelled parts decide, and the agent
  loop follows the answers of a language model.

## Plan

Done: the release of mail, the upstream supervision and the turns; then the workstreams,
the policy engine with the chokepoint, the session graph with the accounting of tool
calls, and the override grants. Next:

1. `ApprovalQueue`: groups, patterns, elicitations, and the execution of purchases and
   destructive actions, which have no journal (a crash after the approval loses them).
2. The composition of `PolicyEngine` and `SessionGraph`: a request's capabilities and
   labels are those of the snapshot.
3. Pure parts as operators with a reference definition: the label lattice, pattern
   subsets of delegations, the audit hash chain across rotation, schema migration in
   `store/lifecycle.py`.
4. The onguard store, the LLM pool and the pid file.

Theorems to come: the invariants of these modules, and the comparison of decisions
(`RevocationNeverLoosens`, `TaintNeverLoosens`) carried through `Chokepoint`.
