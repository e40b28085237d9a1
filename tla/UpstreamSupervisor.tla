------------------------- MODULE UpstreamSupervisor -------------------------
(***************************************************************************)
(* LiveSession, upstream/supervisor.py: one MCP server, a child process or *)
(* an HTTP peer, behind a session that is spawned again when it dies, and  *)
(* the calls made through it at the same time.  With the transport stdio   *)
(* every call runs in its caller's task; with streamable_http one owner    *)
(* task runs them in turn.  Unloading is UpstreamManager.unload_server.    *)
(*                                                                         *)
(* Sessions are numbered in the order they are spawned, so the identity    *)
(* test "self._session is pre_session" compares numbers.  How long the     *)
(* backoff sleeps is left out.                                             *)
(***************************************************************************)
EXTENDS Naturals, Sequences

CONSTANTS
  Calls,      \* the calls made through the session, each made once
  NoCall

ASSUME NoCallIsNone == NoCall \notin Calls

Transports == {"stdio", "streamable_http"}

None == 0   \* self._session is None

VARIABLES
  transport, \* self.config.transport, which never changes
  session,   \* self._session
  spawned,   \* how many sessions have been spawned
  alive,     \* the sessions whose server is running
  holder,    \* the call that holds _respawn_lock, or NoCall
  waiters,   \* the calls that wait for it, in order
  inbox,     \* the calls handed to the owner task, the one it runs first
  call,      \* call[c]: where the call is
  answer,    \* answer[c]: what its caller was told
  ran,       \* ran[c]: how often the server executed it
  unload     \* "no", "closing" (stop is running) or "stopped"

vars ==
  <<transport, session, spawned, alive, holder, waiters, inbox, call, answer, ran, unload>>

\* first, only and retry are attempts: on the session that was there, on the
\* one spawned because there was none, and on the one that replaced a dead one.
Attempts == {"first", "only", "retry"}

Respawning == {"teardown", "spawning"}

Stages == {"new", "queued", "waiting", "done"} \cup Attempts \cup Respawning

Answers == {"result", "error", "UpstreamDead", "UpstreamCallFailed", "AssertionError",
            "OperationTimeoutError"}

\* pre is the session the call found, gen the one its attempt uses, and run
\* whether the server has executed this attempt.
CallStates == [at : Stages, pre : 0 .. spawned, gen : 0 .. spawned, run : BOOLEAN]

NewCall == [at |-> "new", pre |-> None, gen |-> None, run |-> FALSE]

TypeOK ==
  /\ transport \in Transports
  /\ spawned \in Nat
  /\ session \in 0 .. spawned
  /\ alive \subseteq 1 .. spawned
  /\ holder \in Calls \cup {NoCall}
  /\ waiters \in Seq(Calls)
  /\ inbox \in Seq(Calls)
  /\ call \in [Calls -> CallStates]
  /\ answer \in [Calls -> Answers \cup {"none"}]
  /\ ran \in [Calls -> Nat]
  /\ unload \in {"no", "closing", "stopped"}

\* start() has succeeded: a server that cannot be spawned is not registered.
Init ==
  /\ transport \in Transports
  /\ session = 1
  /\ spawned = 1
  /\ alive = {1}
  /\ holder = NoCall
  /\ waiters = <<>>
  /\ inbox = <<>>
  /\ call = [c \in Calls |-> NewCall]
  /\ answer = [c \in Calls |-> "none"]
  /\ ran = [c \in Calls |-> 0]
  /\ unload = "no"

-----------------------------------------------------------------------------
(* How a call moves *)

At(c, stage) == call[c].at = stage

Attempting(c) == call[c].at \in Attempts

Holds(c) == holder = c

\* anyio.Lock: a free lock is taken at once, and a released one is handed to
\* the first waiter.
Acquires(c) ==
  IF holder = NoCall THEN holder' = c /\ UNCHANGED waiters
                     ELSE waiters' = Append(waiters, c) /\ UNCHANGED holder

Releases ==
  IF waiters = <<>> THEN holder' = NoCall /\ UNCHANGED waiters
                    ELSE holder' = Head(waiters) /\ waiters' = Tail(waiters)

\* A cancelled call holds the lock no more, and no longer waits for it.
Abandons(c) ==
  \/ Holds(c) /\ Releases
  \/ /\ ~Holds(c)
     /\ \E i \in DOMAIN waiters :
          /\ waiters[i] = c
          /\ waiters' = SubSeq(waiters, 1, i - 1) \o SubSeq(waiters, i + 1, Len(waiters))
     /\ UNCHANGED holder
  \/ /\ ~Holds(c)
     /\ \A i \in DOMAIN waiters : waiters[i] # c
     /\ UNCHANGED <<holder, waiters>>

Moves(c, stage) == call' = [call EXCEPT ![c].at = stage]

\* A call starts a fresh attempt on session g.
Tries(c, stage, g) == call' = [call EXCEPT ![c].at = stage, ![c].gen = g, ![c].run = FALSE]

\* The call is over.  A caller that gave up has its answer already; the owner
\* task goes on to the next call.
Ends(c, a) == /\ Moves(c, "done")
              /\ answer' = [answer EXCEPT ![c] = IF @ = "none" THEN a ELSE @]
              /\ inbox' = IF inbox # <<>> /\ Head(inbox) = c THEN Tail(inbox) ELSE inbox

\* It ends, and lets go of the lock if it holds it.
EndsUnlocked(c, a) == /\ Ends(c, a)
                      /\ IF Holds(c) THEN Releases ELSE UNCHANGED <<holder, waiters>>

\* The start of _with_retry.
Begins(c) ==
  \/ /\ session # None
     /\ call' = [call EXCEPT ![c].at = "first", ![c].pre = session, ![c].gen = session]
     /\ UNCHANGED <<holder, waiters>>
  \/ /\ session = None
     /\ Moves(c, "waiting")
     /\ Acquires(c)

\* _dispatch.  The tools of an unloaded server are no longer registered.
Dispatch(c) ==
  /\ At(c, "new")
  /\ unload # "stopped"
  /\ \/ /\ transport = "stdio"
        /\ Begins(c)
        /\ UNCHANGED <<inbox, answer>>
     \/ /\ transport = "streamable_http"
        /\ unload = "no"
        /\ Moves(c, "queued")
        /\ inbox' = Append(inbox, c)
        /\ UNCHANGED <<holder, waiters, answer>>
     \/ /\ transport = "streamable_http"
        /\ unload = "closing"
        /\ Ends(c, "AssertionError")
        /\ UNCHANGED <<holder, waiters>>
  /\ UNCHANGED <<session, spawned, alive, ran, unload>>

\* _owner_loop takes the next call.
Serve(c) ==
  /\ At(c, "queued")
  /\ inbox # <<>>
  /\ Head(inbox) = c
  /\ Begins(c)
  /\ UNCHANGED <<session, spawned, alive, inbox, answer, ran, unload>>

-----------------------------------------------------------------------------
(* Attempts: what the server and the transport do (external), and what      *)
(* _with_retry makes of it                                                  *)

Execute(c) ==
  /\ Attempting(c)
  /\ call[c].gen \in alive
  /\ ~call[c].run
  /\ call' = [call EXCEPT ![c].run = TRUE]
  /\ ran' = [ran EXCEPT ![c] = @ + 1]
  /\ UNCHANGED <<session, spawned, alive, holder, waiters, inbox, answer, unload>>

Reply(c) ==
  /\ Attempting(c)
  /\ call[c].gen \in alive
  /\ call[c].run
  /\ Ends(c, "result")
  /\ UNCHANGED <<session, spawned, alive, holder, waiters, ran, unload>>

\* An error that is not the death of the session: a protocol error, an HTTP
\* status.
Refuse(c) ==
  /\ Attempting(c)
  /\ call[c].gen \in alive
  /\ Ends(c, IF At(c, "retry") THEN "UpstreamDead" ELSE "error")
  /\ UNCHANGED <<session, spawned, alive, holder, waiters, ran, unload>>

\* A mistake: the call is tried again whenever its session dies.
BreaksAlways(c) ==
  /\ Attempting(c)
  /\ call' = [call EXCEPT ![c].at = "waiting", ![c].pre = call[c].gen]
  /\ Acquires(c)
  /\ UNCHANGED <<session, spawned, alive, inbox, answer, ran, unload>>

\* An error that looks like death.  It may be one of a live server, which may
\* have executed the call.  The first attempt goes on to respawn and retry.
Break(c) ==
  /\ \/ /\ At(c, "first")
        /\ Moves(c, "waiting")
        /\ Acquires(c)
        /\ UNCHANGED <<inbox, answer>>
     \/ /\ At(c, "only")
        /\ Ends(c, "error")
        /\ UNCHANGED <<holder, waiters>>
     \/ /\ At(c, "retry")
        /\ Ends(c, "UpstreamDead")
        /\ UNCHANGED <<holder, waiters>>
  /\ UNCHANGED <<session, spawned, alive, ran, unload>>

\* The HTTP client reports a remote failure as a cancellation: the session is
\* respawned, without the lock, and the call has failed.
RemoteCancel(c) ==
  /\ transport = "streamable_http"
  /\ Attempting(c)
  /\ \/ /\ At(c, "first")
        /\ Moves(c, "teardown")
        /\ alive' = alive \ {session}
        /\ UNCHANGED <<inbox, answer>>
     \/ /\ ~At(c, "first")
        /\ Ends(c, "UpstreamCallFailed")
        /\ UNCHANGED alive
  /\ UNCHANGED <<session, spawned, holder, waiters, ran, unload>>

\* The server dies.
Crash == \E g \in alive :
  /\ alive' = alive \ {g}
  /\ UNCHANGED <<session, spawned, holder, waiters, inbox, call, answer, ran, unload>>

-----------------------------------------------------------------------------
(* Under the respawn lock *)

\* Mistakes: the lock is not waited for, and the old session is not closed.
RespawnsUnserialized(c) ==
  /\ At(c, "waiting")
  /\ session = call[c].pre
  /\ IF session = None THEN Moves(c, "spawning") ELSE Moves(c, "teardown")
  /\ alive' = alive \ {session}
  /\ UNCHANGED <<session, spawned, holder, waiters, inbox, answer, ran, unload>>

KeepsOldServer(c) ==
  /\ At(c, "waiting")
  /\ Holds(c)
  /\ session = call[c].pre
  /\ Moves(c, "spawning")
  /\ UNCHANGED <<session, spawned, alive, holder, waiters, inbox, answer, ran, unload>>

\* The session is still the one the call found, dead or absent.  An old session
\* is closed first, and is still self._session until it is.
LockRespawns(c) ==
  /\ At(c, "waiting")
  /\ Holds(c)
  /\ session = call[c].pre
  /\ IF session = None THEN Moves(c, "spawning") ELSE Moves(c, "teardown")
  /\ alive' = alive \ {session}
  /\ UNCHANGED <<session, spawned, holder, waiters, inbox, answer, ran, unload>>

\* A mistake: the session that died is used again.
ReusesDeadSession(c) ==
  /\ At(c, "waiting")
  /\ Holds(c)
  /\ session # None
  /\ Tries(c, IF call[c].pre = None THEN "only" ELSE "retry", session)
  /\ Releases
  /\ UNCHANGED <<session, spawned, alive, inbox, answer, ran, unload>>

\* Another call has spawned a session: it is used.
LockReuses(c) ==
  /\ At(c, "waiting")
  /\ Holds(c)
  /\ session \notin {call[c].pre, None}
  /\ Tries(c, IF call[c].pre = None THEN "only" ELSE "retry", session)
  /\ Releases
  /\ UNCHANGED <<session, spawned, alive, inbox, answer, ran, unload>>

\* Another call has closed the session and could not spawn one: the assertion
\* before the retry fails.
LockAsserts(c) ==
  /\ At(c, "waiting")
  /\ Holds(c)
  /\ session # call[c].pre
  /\ session = None
  /\ EndsUnlocked(c, "AssertionError")
  /\ UNCHANGED <<session, spawned, alive, ran, unload>>

TearDown(c) ==
  /\ At(c, "teardown")
  /\ session' = None
  /\ Moves(c, "spawning")
  /\ UNCHANGED <<spawned, alive, holder, waiters, inbox, answer, ran, unload>>

\* The call that respawned under the lock makes its attempt; the one that
\* respawned after a remote failure is over.
SpawnSucceeds(c) ==
  /\ At(c, "spawning")
  /\ spawned' = spawned + 1
  /\ session' = spawned + 1
  /\ alive' = alive \cup {spawned + 1}
  /\ IF Holds(c)
     THEN /\ Tries(c, IF call[c].pre = None THEN "only" ELSE "retry", spawned + 1)
          /\ Releases
          /\ UNCHANGED <<inbox, answer>>
     ELSE /\ Ends(c, "UpstreamCallFailed")
          /\ UNCHANGED <<holder, waiters>>
  /\ UNCHANGED <<ran, unload>>

\* A mistake: the lock is kept when the server cannot be spawned.
FailsWithLock(c) ==
  /\ At(c, "spawning")
  /\ Ends(c, IF Holds(c) THEN "UpstreamDead" ELSE "UpstreamCallFailed")
  /\ UNCHANGED <<session, spawned, alive, holder, waiters, ran, unload>>

SpawnFails(c) ==
  /\ At(c, "spawning")
  /\ EndsUnlocked(c, IF Holds(c) THEN "UpstreamDead" ELSE "UpstreamCallFailed")
  /\ UNCHANGED <<session, spawned, alive, ran, unload>>

-----------------------------------------------------------------------------
(* Deadlines and unloading *)

\* with_timeout around a call in the caller's task cancels what it is doing.  In
\* the first attempt _with_retry turns the cancellation into an error of its
\* own; a close in progress is completed first.  A child whose spawning is cut
\* short belongs to no session and is not followed.
DeadlineInTask(c) ==
  /\ transport = "stdio"
  /\ call[c].at \notin {"new", "done"}
  /\ Ends(c, IF At(c, "first") THEN "UpstreamCallFailed" ELSE "OperationTimeoutError")
  /\ Abandons(c)
  /\ session' = IF At(c, "teardown") THEN None ELSE session
  /\ UNCHANGED <<spawned, alive, ran, unload>>

\* Around a call in the owner's task it only ends the caller's wait.
DeadlineOfCaller(c) ==
  /\ transport = "streamable_http"
  /\ call[c].at \notin {"new", "done"}
  /\ answer[c] = "none"
  /\ answer' = [answer EXCEPT ![c] = "OperationTimeoutError"]
  /\ UNCHANGED <<session, spawned, alive, holder, waiters, inbox, call, ran, unload>>

\* stop(): a child is closed at once; the owner task first runs the calls it
\* was handed.
StopBegins ==
  /\ unload = "no"
  /\ unload' = IF transport = "stdio" /\ session = None THEN "stopped" ELSE "closing"
  /\ alive' = IF transport = "stdio" THEN alive \ {session} ELSE alive
  /\ UNCHANGED <<session, spawned, holder, waiters, inbox, call, answer, ran>>

StopEnds ==
  /\ unload = "closing"
  /\ inbox = <<>>
  /\ unload' = "stopped"
  /\ session' = None
  /\ alive' = IF transport = "stdio" THEN alive ELSE alive \ {session}
  /\ UNCHANGED <<spawned, holder, waiters, inbox, call, answer, ran>>

-----------------------------------------------------------------------------

\* The supervisor's own steps.
Supervise(c) ==
  \/ Serve(c)
  \/ LockRespawns(c) \/ LockReuses(c) \/ LockAsserts(c)
  \/ TearDown(c) \/ SpawnSucceeds(c) \/ SpawnFails(c)

AttemptEnds(c) == Reply(c) \/ Refuse(c) \/ Break(c) \/ RemoteCancel(c)

Deadline(c) == DeadlineInTask(c) \/ DeadlineOfCaller(c)

Next ==
  /\ \/ \E c \in Calls :
          Dispatch(c) \/ Execute(c) \/ AttemptEnds(c) \/ Supervise(c) \/ Deadline(c)
     \/ Crash \/ StopBegins \/ StopEnds
  /\ UNCHANGED transport

Spec == Init /\ [][Next]_vars

\* The daemon's tasks go on: the lock is handed to its waiters in order, closing
\* a session ends, and spawning one succeeds or fails.
DaemonRuns == \A c \in Calls : WF_vars(Supervise(c) /\ UNCHANGED transport)

\* An upstream that answers or breaks, sooner or later; no deadline is needed.
RespondingSpec == Spec /\ DaemonRuns /\ \A c \in Calls : WF_vars(AttemptEnds(c) /\ UNCHANGED transport)

-----------------------------------------------------------------------------
(* Properties *)

\* A call is executed by the server at most twice, and twice only when the
\* session of its first attempt was given up ("at most one retry per call").
RetryOnce ==
  \A c \in Calls : /\ ran[c] <= 2
                   /\ ran[c] = 2 => call[c].pre # None /\ call[c].gen # call[c].pre

\* A retry is made on a session that was spawned after the one the call saw die,
\* whoever spawned it and whatever died since.
RetriesOnNewerSession ==
  \A c \in Calls : At(c, "retry") => None < call[c].pre /\ call[c].pre < call[c].gen

\* Whatever transport, lock holder or remote failure asked for it, one call at a
\* time closes and spawns sessions ("Respawn is serialized").
RespawnIsSerialized ==
  \A c, d \in Calls : call[c].at \in Respawning /\ call[d].at \in Respawning => c = d

\* Until the server is unloaded at most one session has a running server, the
\* current one: a respawn does not leave the server it replaces behind.
OneServer == unload = "no" => alive \subseteq {session}

\* The lock is never lost, whoever breaks, is cancelled or gives up: a call that
\* waits has the lock or is queued for it once, only such calls are queued, nobody
\* is queued for a free lock, and who has it is about to respawn or does.
LockIsPassedOn ==
  /\ \A c \in Calls : At(c, "waiting") => Holds(c) \/ \E i \in DOMAIN waiters : waiters[i] = c
  /\ \A i \in DOMAIN waiters : At(waiters[i], "waiting") /\ ~Holds(waiters[i])
  /\ \A i, j \in DOMAIN waiters : waiters[i] = waiters[j] => i = j
  /\ waiters # <<>> => holder # NoCall
  /\ \A c \in Calls : Holds(c) => call[c].at \in {"waiting"} \cup Respawning

\* Every call ends when the upstream answers or breaks: nobody waits for a lock
\* that is not released.
CallEnds == \A c \in Calls : ~At(c, "new") ~> At(c, "done")

=============================================================================
