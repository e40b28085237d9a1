--------------------------- MODULE TurnLifecycle ---------------------------
(***************************************************************************)
(* The turns of one session: TurnLifecycleManager of                       *)
(* daemon/turn_lifecycle.py, which drives a streaming turn in a background *)
(* task with a heartbeat watch beside it, and session.send and             *)
(* session.cancel of daemon/agent_handlers.py.  They share the session's   *)
(* turn lock (SessionCoordinator) and its cancellation flag.               *)
(*                                                                         *)
(* A step is what a task does between two awaits.  The manager's own lock  *)
(* is held within a step only.  A write of the audit log may raise; the    *)
(* notification of subscribers (_emit) does not, as Daemon.publish catches *)
(* the errors of their streams.  Messages, events and partial output are   *)
(* left out, except that a turn was reported complete; so is the clock: a  *)
(* heartbeat times out at any time no tool runs.                           *)
(***************************************************************************)
EXTENDS Naturals, Sequences

CONSTANTS
  Turns,       \* the streaming turns of the session, each started once
  Sends,       \* the session.send requests, each made once
  Heartbeats,  \* the turns started with heartbeat_enabled
  Nobody

ASSUME HeartbeatsAreTurns == Heartbeats \subseteq Turns

ASSUME Distinct == Turns \cap Sends = {} /\ Nobody \notin Turns \cup Sends

VARIABLES
  status,    \* _turns[t].status
  asked,     \* the turns with an entry in _cancel_reasons
  active,    \* _active_by_session
  scope,     \* _cancel_scopes[t]
  watch,     \* the heartbeat watch of t
  at,        \* where the task of t is
  tool,      \* the turns with a tool in flight
  reported,  \* the turns whose completed event was emitted
  holder,    \* who holds the session's turn lock
  flag,      \* cancellation_flags
  send,      \* send[s]: what became of a request
  inputs     \* the session's input queue

vars == <<status, asked, active, scope, watch, at, tool, reported, holder, flag, send, inputs>>

Terminal == {"completed", "interrupted", "error"}

Statuses == {"none", "queued", "running", "cancelling"} \cup Terminal

\* The task acquires the turn lock (starting), sets its status (locked),
\* registers its scope (registering), enters it (entering), runs the agent loop
\* (driving) and records the outcome (reporting, interrupting).  Out of the scope
\* it waits for the watch (draining).  After an exception it leaves the task group
\* (unwinding) and records it (stopping, erring); at the end it cleans up (cleanup)
\* and, if nothing was recorded, records the cancellation (finishing).  After a second
\* exception it does the same (aborting, retrying) and is broken, as it is if the
\* recording raises.
Places == {"none", "starting", "locked", "registering", "entering", "driving", "reporting",
           "interrupting", "draining", "unwinding", "stopping", "erring", "cleanup",
           "finishing", "done", "aborting", "retrying", "broken"}

\* The finally branch, with an exception on its way out of the task.
Failing == {"aborting", "retrying"}

TypeOK ==
  /\ status \in [Turns -> Statuses]
  /\ asked \subseteq Turns
  /\ active \in Turns \cup {Nobody}
  /\ scope \in [Turns -> {"none", "open", "cancelled"}]
  /\ watch \in [Turns -> {"off", "on", "expired"}]
  /\ at \in [Turns -> Places]
  /\ tool \subseteq Turns
  /\ reported \subseteq Turns
  /\ holder \in Turns \cup Sends \cup {Nobody}
  /\ flag \in {"absent", "clear", "set"}
  /\ send \in [Sends -> {"new", "queued", "running", "draining", "done"}]
  /\ inputs \in Seq(Sends)

Init ==
  /\ status = [t \in Turns |-> "none"]
  /\ asked = {}
  /\ active = Nobody
  /\ scope = [t \in Turns |-> "none"]
  /\ watch = [t \in Turns |-> "off"]
  /\ at = [t \in Turns |-> "none"]
  /\ tool = {}
  /\ reported = {}
  /\ holder = Nobody
  /\ flag = "absent"
  /\ send = [s \in Sends |-> "new"]
  /\ inputs = <<>>

Goes(t, place) == at' = [at EXCEPT ![t] = place]

SetStatus(t, s) == status' = [status EXCEPT ![t] = s]

-----------------------------------------------------------------------------
(* The manager's operations *)

\* Only a running turn is in the way of another.
start(t) ==
  /\ status[t] = "none"
  /\ \A u \in Turns : u = active => status[u] # "running"
  /\ SetStatus(t, "queued")
  /\ active' = t
  /\ Goes(t, "starting")
  /\ UNCHANGED <<asked, scope, watch, tool, reported, holder, flag, send, inputs>>

\* A mistake: a turn that is over is cancelled.
CancelsAnyTurn(t) ==
  /\ status[t] # "none"
  /\ asked' = asked \cup {t}
  /\ SetStatus(t, "cancelling")
  /\ UNCHANGED <<active, scope, watch, at, tool, reported, holder, flag, send, inputs>>

cancel(t) ==
  /\ status[t] \in {"queued", "running"}
  /\ asked' = asked \cup {t}
  /\ SetStatus(t, "cancelling")
  /\ scope' = IF scope[t] = "open" THEN [scope EXCEPT ![t] = "cancelled"] ELSE scope
  /\ UNCHANGED <<active, watch, at, tool, reported, holder, flag, send, inputs>>

-----------------------------------------------------------------------------
(* _run_turn, up to the agent loop *)

\* What the except branch does first.
Excepts(t) == Goes(t, IF t \in asked THEN "stopping" ELSE "erring")

\* A mistake: the turn runs beside the one that holds the lock.
AcquiresShared(t) ==
  /\ at[t] = "starting"
  /\ holder' = t
  /\ Goes(t, "locked")
  /\ UNCHANGED <<status, asked, active, scope, watch, tool, reported, flag, send, inputs>>

\* The lock is not waited for.
acquire_turn(t) ==
  /\ at[t] = "starting"
  /\ \/ holder = Nobody /\ holder' = t /\ Goes(t, "locked")
     \/ holder # Nobody /\ Excepts(t) /\ UNCHANGED holder
  /\ UNCHANGED <<status, asked, active, scope, watch, tool, reported, flag, send, inputs>>

\* The status is set whatever it has become.
SetRunning(t) ==
  /\ at[t] = "locked"
  /\ SetStatus(t, "running")
  /\ flag' = "clear"
  /\ Goes(t, "registering")
  /\ UNCHANGED <<asked, active, scope, watch, tool, reported, holder, send, inputs>>

\* A mistake: a cancellation that came before the scope is not replayed.
RegistersOpen(t) ==
  /\ at[t] = "registering"
  /\ scope' = [scope EXCEPT ![t] = "open"]
  /\ watch' = [watch EXCEPT ![t] = IF t \in Heartbeats THEN "on" ELSE "off"]
  /\ Goes(t, "entering")
  /\ UNCHANGED <<status, asked, active, tool, reported, holder, flag, send, inputs>>

RegisterScope(t) ==
  /\ at[t] = "registering"
  /\ scope' = [scope EXCEPT ![t] = IF t \in asked THEN "cancelled" ELSE "open"]
  /\ watch' = [watch EXCEPT ![t] = IF t \in Heartbeats THEN "on" ELSE "off"]
  /\ Goes(t, "entering")
  /\ UNCHANGED <<status, asked, active, tool, reported, holder, flag, send, inputs>>

\* The checkpoint in the scope.
EnterScope(t) ==
  /\ at[t] = "entering"
  /\ Goes(t, IF scope[t] = "cancelled" THEN "draining" ELSE "driving")
  /\ UNCHANGED <<status, asked, active, scope, watch, tool, reported, holder, flag, send, inputs>>

-----------------------------------------------------------------------------
(* The agent loop and its events *)

ToolDispatched(t) ==
  /\ at[t] = "driving"
  /\ scope[t] = "open"
  /\ tool' = tool \cup {t}
  /\ UNCHANGED <<status, asked, active, scope, watch, at, reported, holder, flag, send, inputs>>

ToolReturned(t) ==
  /\ at[t] = "driving"
  /\ scope[t] = "open"
  /\ tool' = tool \ {t}
  /\ UNCHANGED <<status, asked, active, scope, watch, at, reported, holder, flag, send, inputs>>

\* TurnCompleted: its event is emitted, and then the outcome recorded.
TurnCompleted(t) ==
  /\ at[t] = "driving"
  /\ reported' = reported \cup {t}
  /\ Goes(t, "reporting")
  /\ UNCHANGED <<status, asked, active, scope, watch, tool, holder, flag, send, inputs>>

\* TurnInterrupted, because the flag was polled or a limit was reached: the
\* audit event is written, and then the outcome recorded.
TurnInterrupted(t) ==
  /\ at[t] = "driving"
  /\ Goes(t, "interrupting")
  /\ UNCHANGED <<status, asked, active, scope, watch, tool, reported, holder, flag, send, inputs>>

\* The outcome is recorded, unless the cancellation of the scope comes first; the
\* watch is cancelled with the task group.
RecordOutcome(t) ==
  /\ \/ at[t] = "reporting" /\ SetStatus(t, "completed")
     \/ at[t] = "interrupting" /\ SetStatus(t, "interrupted")
  /\ watch' = [watch EXCEPT ![t] = "off"]
  /\ Goes(t, "cleanup")
  /\ UNCHANGED <<asked, active, scope, tool, reported, holder, flag, send, inputs>>

\* The loop, a tool or the model raises.  Like the outcomes above, this can come
\* before a cancellation that has been asked for.
Raise(t) ==
  /\ at[t] = "driving"
  /\ watch' = [watch EXCEPT ![t] = "off"]
  /\ Goes(t, "unwinding")
  /\ UNCHANGED <<status, asked, active, scope, tool, reported, holder, flag, send, inputs>>

\* The cancellation of the scope is delivered, and ends there.
Cancelled(t) ==
  /\ at[t] \in {"driving", "reporting", "interrupting"}
  /\ scope[t] = "cancelled"
  /\ Goes(t, "draining")
  /\ UNCHANGED <<status, asked, active, scope, watch, tool, reported, holder, flag, send, inputs>>

-----------------------------------------------------------------------------
(* _heartbeat_watch.  Its first sleep is over after EnterScope. *)

\* A mistake: the watch of a turn that is being cancelled goes on.
WatchReturnsLate(t) ==
  /\ watch[t] = "on"
  /\ at[t] # "entering"
  /\ status[t] \in Terminal
  /\ watch' = [watch EXCEPT ![t] = "off"]
  /\ UNCHANGED <<status, asked, active, scope, at, tool, reported, holder, flag, send, inputs>>

WatchReturns(t) ==
  /\ watch[t] = "on"
  /\ at[t] # "entering"
  /\ status[t] \notin {"queued", "running"}
  /\ watch' = [watch EXCEPT ![t] = "off"]
  /\ UNCHANGED <<status, asked, active, scope, at, tool, reported, holder, flag, send, inputs>>

\* Nobody acknowledged in time, and no tool is running.
HeartbeatExpires(t) ==
  /\ watch[t] = "on"
  /\ at[t] # "entering"
  /\ status[t] \in {"queued", "running"}
  /\ t \notin tool
  /\ asked' = asked \cup {t}
  /\ SetStatus(t, "cancelling")
  /\ watch' = [watch EXCEPT ![t] = "expired"]
  /\ UNCHANGED <<active, scope, at, tool, reported, holder, flag, send, inputs>>

\* After the heartbeat event.
WatchCancels(t) ==
  /\ watch[t] = "expired"
  /\ scope' = [scope EXCEPT ![t] = "cancelled"]
  /\ watch' = [watch EXCEPT ![t] = "off"]
  /\ UNCHANGED <<status, asked, active, at, tool, reported, holder, flag, send, inputs>>

-----------------------------------------------------------------------------
(* _run_turn, after the agent loop *)

\* The task group waits for the watch.
Drained(t) ==
  /\ at[t] = "draining"
  /\ watch[t] = "off"
  /\ Goes(t, "cleanup")
  /\ UNCHANGED <<status, asked, active, scope, watch, tool, reported, holder, flag, send, inputs>>

Unwound(t) ==
  /\ at[t] = "unwinding"
  /\ Excepts(t)
  /\ UNCHANGED <<status, asked, active, scope, watch, tool, reported, holder, flag, send, inputs>>

RecordFailure(t) ==
  /\ \/ at[t] = "stopping" /\ SetStatus(t, "interrupted")
     \/ at[t] = "erring" /\ SetStatus(t, "error")
  /\ Goes(t, "cleanup")
  /\ UNCHANGED <<asked, active, scope, watch, tool, reported, holder, flag, send, inputs>>

\* The last lines: the flag is dropped, by a turn that never had the lock too.
Leaves(t) ==
  /\ flag' = "absent"
  /\ holder' = IF holder = t THEN Nobody ELSE holder
  /\ Goes(t, IF at[t] \in Failing THEN "broken" ELSE "done")

Deactivates(t) == active' = IF active = t THEN Nobody ELSE active

\* A mistake: a turn that is being cancelled counts as finished.
CleansUpEarly(t) ==
  /\ at[t] \in {"cleanup", "aborting"}
  /\ scope' = [scope EXCEPT ![t] = "none"]
  /\ Deactivates(t)
  /\ \/ /\ t \in asked /\ status[t] \in {"queued", "running"}
        /\ Goes(t, IF at[t] = "aborting" THEN "retrying" ELSE "finishing")
        /\ UNCHANGED <<flag, holder>>
     \/ /\ ~(t \in asked /\ status[t] \in {"queued", "running"})
        /\ Leaves(t)
  /\ UNCHANGED <<status, asked, watch, tool, reported, send, inputs>>

Cleanup(t) ==
  /\ at[t] \in {"cleanup", "aborting"}
  /\ scope' = [scope EXCEPT ![t] = "none"]
  /\ Deactivates(t)
  /\ \/ /\ t \in asked /\ status[t] \notin Terminal
        /\ Goes(t, IF at[t] = "aborting" THEN "retrying" ELSE "finishing")
        /\ UNCHANGED <<flag, holder>>
     \/ /\ ~(t \in asked /\ status[t] \notin Terminal)
        /\ Leaves(t)
  /\ UNCHANGED <<status, asked, watch, tool, reported, send, inputs>>

FinishInterrupted(t) ==
  /\ at[t] \in {"finishing", "retrying"}
  /\ SetStatus(t, "interrupted")
  /\ Leaves(t)
  /\ UNCHANGED <<asked, active, scope, watch, tool, reported, send, inputs>>

\* The audit write that _finish_interrupted makes before it records the outcome
\* raises: within the loop, in the except branch, or in the finally branch, which
\* then releases nothing.  An exception that leaves the task cancels the task group
\* of the daemon, with the listener and the other tasks; here these go on, as they
\* do until the cancellation reaches them.
AuditRaises(t) ==
  /\ \/ at[t] = "interrupting" /\ Goes(t, "unwinding") /\ watch' = [watch EXCEPT ![t] = "off"]
     \/ at[t] = "stopping" /\ Goes(t, "aborting") /\ UNCHANGED watch
     \/ at[t] \in {"finishing", "retrying"} /\ Goes(t, "broken") /\ UNCHANGED watch
  /\ UNCHANGED <<status, asked, active, scope, tool, reported, holder, flag, send, inputs>>

-----------------------------------------------------------------------------
(* session.send, session.input.submit and session.cancel *)

SendStarts(s) ==
  /\ send[s] = "new"
  /\ holder = Nobody
  /\ holder' = s
  /\ flag' = "clear"
  /\ send' = [send EXCEPT ![s] = "running"]
  /\ UNCHANGED <<status, asked, active, scope, watch, at, tool, reported, inputs>>

\* A message to a busy session, and any message of session.input.submit.
Enqueue(s) ==
  /\ send[s] = "new"
  /\ send' = [send EXCEPT ![s] = "queued"]
  /\ inputs' = Append(inputs, s)
  /\ UNCHANGED <<status, asked, active, scope, watch, at, tool, reported, holder, flag>>

\* A message to a busy session that must not be queued.
SendRefused(s) ==
  /\ send[s] = "new"
  /\ holder # Nobody
  /\ send' = [send EXCEPT ![s] = "done"]
  /\ UNCHANGED <<status, asked, active, scope, watch, at, tool, reported, holder, flag, inputs>>

\* _run_single_turn is over; an exception leaves the queue alone.
SendRan(s) ==
  /\ send[s] = "running"
  /\ flag' = "absent"
  /\ \/ send' = [send EXCEPT ![s] = "draining"] /\ UNCHANGED holder
     \/ send' = [send EXCEPT ![s] = "done"] /\ holder' = Nobody
  /\ UNCHANGED <<status, asked, active, scope, watch, at, tool, reported, inputs>>

\* The next queued input is run under the same lock, or the lock is released.
SendDrains(s) ==
  /\ send[s] = "draining"
  /\ \/ /\ inputs # <<>>
        /\ inputs' = Tail(inputs)
        /\ send' = [send EXCEPT ![s] = "running", ![Head(inputs)] = "done"]
        /\ flag' = "clear"
        /\ UNCHANGED holder
     \/ /\ inputs = <<>>
        /\ send' = [send EXCEPT ![s] = "done"]
        /\ holder' = Nobody
        /\ UNCHANGED <<inputs, flag>>
  /\ UNCHANGED <<status, asked, active, scope, watch, at, tool, reported>>

session_cancel ==
  /\ flag # "absent"
  /\ flag' = "set"
  /\ UNCHANGED <<status, asked, active, scope, watch, at, tool, reported, holder, send, inputs>>

-----------------------------------------------------------------------------

LoopEnds(t) == TurnCompleted(t) \/ TurnInterrupted(t) \/ Raise(t) \/ Cancelled(t)

TaskStep(t) ==
  \/ acquire_turn(t) \/ SetRunning(t) \/ RegisterScope(t) \/ EnterScope(t)
  \/ RecordOutcome(t) \/ Drained(t) \/ Unwound(t) \/ RecordFailure(t)
  \/ Cleanup(t) \/ FinishInterrupted(t) \/ AuditRaises(t)

WatchStep(t) == WatchReturns(t) \/ WatchCancels(t)

SendStep(s) == SendRan(s) \/ SendDrains(s)

Next ==
  \/ \E t \in Turns :
       \/ start(t) \/ cancel(t) \/ TaskStep(t) \/ LoopEnds(t)
       \/ ToolDispatched(t) \/ ToolReturned(t)
       \/ WatchStep(t) \/ HeartbeatExpires(t)
  \/ \E s \in Sends : SendStarts(s) \/ Enqueue(s) \/ SendRefused(s) \/ SendStep(s)
  \/ session_cancel

Spec == Init /\ [][Next]_vars

\* The daemon's tasks go on, and the agent loop ends: it has a limit of
\* iterations and a timeout for each call.  A client may acknowledge for ever.
FairSpec ==
  /\ Spec
  /\ \A t \in Turns : WF_vars(TaskStep(t)) /\ WF_vars(LoopEnds(t)) /\ WF_vars(WatchStep(t))
  /\ \A s \in Sends : WF_vars(SendStep(s))

\* The same with clients that stop acknowledging.
SilentSpec == FairSpec /\ \A t \in Turns : WF_vars(HeartbeatExpires(t))

-----------------------------------------------------------------------------
(* Properties *)

\* Past acquire_turn and before the end.  A turn that was refused the lock comes by
\* stopping or erring to its cleanup, and to what follows it, without the lock.
Works(t) ==
  at[t] \in {"locked", "registering", "entering", "driving", "reporting", "interrupting",
            "draining", "unwinding"}

\* One turn at a time works for a session, whichever handler it came from: a turn
\* that never had the lock does not release that of another.
OneTurnAtATime ==
  /\ \A t \in Turns : Works(t) => holder = t
  /\ \A s \in Sends : send[s] \in {"running", "draining"} => holder = s

\* A turn whose task returns has an outcome and holds nothing back: neither the lock,
\* nor the place of the active turn, nor a scope, nor a watch.  One that an exception
\* of the audit log leaves (broken) may keep the lock, and takes the daemon down.
EndsClean ==
  \A t \in Turns : at[t] = "done" =>
    /\ status[t] \in Terminal
    /\ holder # t
    /\ active # t
    /\ scope[t] = "none"
    /\ watch[t] = "off"

\* A turn that was cancelled before its loop began does not enter the loop, whenever
\* the cancellation came (the comment in _run_turn).
StoppedBeforeStart ==
  [][\A t \in Turns : at[t] # "driving" /\ at'[t] = "driving" => t \notin asked]_vars

\* An outcome is final.
OutcomeIsFinal ==
  [][\A t \in Turns : status[t] \in Terminal => status'[t] = status[t]]_vars

\* No exception has left the task of a turn and is taking the daemon down.
Up == \A t \in Turns : at[t] # "broken"

\* Every turn that was started ends, and every message that took the lock gives it
\* back, unless an audit write that fails after the loop takes the daemon down.
EveryTurnEnds ==
  /\ \A t \in Turns : at[t] = "starting" ~> at[t] = "done" \/ ~Up
  /\ \A s \in Sends : holder = s ~> holder # s \/ ~Up

\* A cancelled turn ends, in a daemon that is up (the comment in _run_turn: a stop
\* that arrives while the turn is queued is replayed).
StopTakesEffect == \A t \in Turns : t \in asked ~> status[t] \in Terminal \/ ~Up

=============================================================================
