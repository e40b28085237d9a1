---------------------- MODULE UpstreamSupervisorProofs ----------------------
(***************************************************************************)
(* The safety invariants of UpstreamSupervisor, for any number of calls    *)
(* and sessions and for both transports.                                   *)
(***************************************************************************)
EXTENDS UpstreamSupervisor, TLAPS

Active(c) == call[c].at \notin {"new", "queued", "done"}

\* How often the current attempt of a call has been executed.
Count(c) == IF call[c].run THEN 1 ELSE 0

\* Only the newest session is ever current.
CurrentIsNewest == session \in {None, spawned}

\* What a call has seen and had executed at each stage.
CallInv(c) ==
  /\ call[c].at \in {"new", "queued"} => call[c].pre = None /\ ~call[c].run /\ ran[c] = 0
  /\ At(c, "first") => None < call[c].pre /\ call[c].gen = call[c].pre /\ ran[c] <= Count(c)
  /\ call[c].at \in {"waiting"} \cup Respawning =>
       ran[c] <= 1 /\ (call[c].pre = None => ran[c] = 0)
  /\ At(c, "only") => call[c].pre = None /\ ran[c] <= Count(c)
  /\ At(c, "retry") => /\ None < call[c].pre /\ call[c].pre < call[c].gen
                       /\ ran[c] <= 1 + Count(c)
  /\ ran[c] <= 2
  /\ ran[c] = 2 => call[c].pre # None /\ call[c].gen # call[c].pre

CallsInv == \A c \in Calls : CallInv(c)

\* A call of the stdio transport respawns under the lock; a call of the owner
\* task is the first of its inbox as long as it runs.
OneAtATime ==
  /\ transport = "stdio" => \A c \in Calls : call[c].at \in Respawning => Holds(c)
  /\ transport = "streamable_http" =>
       \A c \in Calls : Active(c) => inbox # <<>> /\ Head(inbox) = c

\* While a call closes or spawns a session no server runs.
NoServerWhileRespawning ==
  unload = "no" => \A c \in Calls : call[c].at \in Respawning => alive = {}

Inv == /\ TypeOK
       /\ CurrentIsNewest
       /\ CallsInv
       /\ OneAtATime
       /\ OneServer
       /\ NoServerWhileRespawning

-----------------------------------------------------------------------------
(* What the helpers do *)

\* Call c, and no other, is now at stage a with the session p it found, the
\* session g of its attempt and the mark r of its execution.
Effect(c, a, p, g, r) ==
  /\ call' \in [Calls -> CallStates']
  /\ call'[c].at = a
  /\ call'[c].pre = p
  /\ call'[c].gen = g
  /\ call'[c].run = r
  /\ \A d \in Calls : d # c => call'[d] = call[d]

Goes(c, a) == Effect(c, a, call[c].pre, call[c].gen, call[c].run)

\* Moving a call changes its stage only.
LEMMA MovesEffect ==
  ASSUME TypeOK, NEW c \in Calls, NEW a \in Stages, Moves(c, a),
         spawned' \in Nat, spawned <= spawned'
  PROVE  Goes(c, a)
<1>1. call[c] \in CallStates
  BY DEF TypeOK
<1>2. CallStates \subseteq CallStates'
  BY DEF CallStates, TypeOK, Stages
<1>3. [call[c] EXCEPT !.at = a] \in CallStates'
  BY <1>1, <1>2 DEF CallStates
<1>4. call' = [call EXCEPT ![c] = [call[c] EXCEPT !.at = a]]
  BY DEF Moves, TypeOK
<1> HIDE DEF CallStates
<1>5. call' \in [Calls -> CallStates']
  BY <1>2, <1>3, <1>4 DEF TypeOK
<1>6. /\ call'[c] = [call[c] EXCEPT !.at = a]
      /\ \A d \in Calls : d # c => call'[d] = call[d]
  BY <1>4 DEF TypeOK
<1> QED
  BY <1>1, <1>5, <1>6 DEF Goes, Effect, CallStates

\* An attempt begins unexecuted, on session g.
LEMMA TriesEffect ==
  ASSUME TypeOK, NEW c \in Calls, NEW a \in Stages, NEW g \in Nat, Tries(c, a, g),
         spawned' \in Nat, spawned <= spawned', g <= spawned'
  PROVE  Effect(c, a, call[c].pre, g, FALSE)
<1> DEFINE new == [call[c] EXCEPT !.at = a, !.gen = g, !.run = FALSE]
<1>1. call[c] \in CallStates
  BY DEF TypeOK
<1>2. CallStates \subseteq CallStates'
  BY DEF CallStates, TypeOK, Stages
<1>3. new \in CallStates'
  <2>1. g \in 0 .. spawned' /\ call[c].pre \in 0 .. spawned'
    BY <1>1 DEF CallStates, TypeOK
  <2> QED
    BY <1>1, <2>1 DEF CallStates
<1>4. call' = [call EXCEPT ![c] = new]
  BY DEF Tries, TypeOK
<1>5. call' \in [Calls -> CallStates']
  BY <1>2, <1>3, <1>4 DEF TypeOK
<1>6. /\ call'[c] = new
      /\ \A d \in Calls : d # c => call'[d] = call[d]
  BY <1>4 DEF TypeOK
<1> QED
  BY <1>1, <1>5, <1>6 DEF Effect, CallStates

\* A call that begins makes its first attempt, or asks for the lock.
LEMMA BeginsEffect ==
  ASSUME TypeOK, NEW c \in Calls, Begins(c), spawned' = spawned
  PROVE  \/ /\ session # None
            /\ Effect(c, "first", session, session, call[c].run)
            /\ UNCHANGED <<holder, waiters>>
         \/ /\ session = None
            /\ Goes(c, "waiting")
            /\ Acquires(c)
<1>1. CASE session = None
  <2>1. "waiting" \in Stages /\ spawned' \in Nat /\ spawned <= spawned'
    BY DEF Stages, TypeOK
  <2> QED
    BY <1>1, <2>1, MovesEffect DEF Begins
<1>2. CASE session # None
  <2> DEFINE new == [call[c] EXCEPT !.at = "first", !.pre = session, !.gen = session]
  <2>1. call[c] \in CallStates
    BY DEF TypeOK
  <2>2. CallStates = CallStates'
    BY DEF CallStates
  <2>3. new \in CallStates'
    BY <2>1, <2>2 DEF CallStates, TypeOK, Stages, Attempts
  <2>4. call' = [call EXCEPT ![c] = new] /\ UNCHANGED <<holder, waiters>>
    BY <1>2 DEF Begins, TypeOK
  <2>5. call' \in [Calls -> CallStates']
    BY <2>2, <2>3, <2>4 DEF TypeOK
  <2>6. /\ call'[c] = new
        /\ \A d \in Calls : d # c => call'[d] = call[d]
    BY <2>4 DEF TypeOK
  <2> QED
    BY <1>2, <2>1, <2>4, <2>5, <2>6 DEF Effect, CallStates
<1> QED
  BY <1>1, <1>2

\* The lock stays well formed.
LEMMA LockTyped ==
  ASSUME TypeOK, NEW c \in Calls,
         Acquires(c) \/ Releases \/ Abandons(c) \/ UNCHANGED <<holder, waiters>>
  PROVE  holder' \in Calls \cup {NoCall} /\ waiters' \in Seq(Calls)
<1> holder \in Calls \cup {NoCall} /\ waiters \in Seq(Calls)
  BY DEF TypeOK
<1>1. CASE Acquires(c)
  BY <1>1 DEF Acquires
<1>2. CASE Releases
  BY <1>2 DEF Releases
<1>3. CASE Abandons(c)
  <2>1. ASSUME NEW i \in DOMAIN waiters
        PROVE  SubSeq(waiters, 1, i - 1) \o SubSeq(waiters, i + 1, Len(waiters)) \in Seq(Calls)
    OBVIOUS
  <2> QED
    BY <1>2, <1>3, <2>1 DEF Abandons
<1>4. CASE UNCHANGED <<holder, waiters>>
  BY <1>4
<1> QED
  BY <1>1, <1>2, <1>3, <1>4

\* The end of a call leaves the answers and the inbox well formed.
LEMMA EndsTyped ==
  ASSUME TypeOK, NEW c \in Calls, NEW a \in Answers, Ends(c, a)
  PROVE  answer' \in [Calls -> Answers \cup {"none"}] /\ inbox' \in Seq(Calls)
<1>1. answer' \in [Calls -> Answers \cup {"none"}]
  BY DEF Ends, TypeOK
<1>2. inbox' \in Seq(Calls)
  BY DEF Ends, TypeOK
<1> QED
  BY <1>1, <1>2

\* What every step of call c leaves in order, apart from the calls, the lock and
\* the answers.
Frame(c) ==
  /\ spawned' \in Nat
  /\ spawned <= spawned'
  /\ session' \in 0 .. spawned'
  /\ alive' \subseteq 1 .. spawned'
  /\ ran' \in [Calls -> Nat]
  /\ \A d \in Calls : d # c => ran'[d] = ran[d]
  /\ unload' \in {"no", "closing", "stopped"}

LEMMA StagesAre ==
  Stages = {"new", "queued", "waiting", "done", "first", "only", "retry", "teardown", "spawning"}
  BY DEF Stages, Attempts, Respawning

\* A step of one call that keeps its account keeps all of them.
LEMMA CallsFrom ==
  ASSUME CallsInv, NEW c \in Calls, CallInv(c)',
         \A d \in Calls : d # c => call'[d] = call[d] /\ ran'[d] = ran[d]
  PROVE  CallsInv'
<1> SUFFICES ASSUME NEW d \in Calls, d # c
             PROVE  CallInv(d)'
  BY DEF CallsInv
<1>1. CallInv(d) /\ call'[d] = call[d] /\ ran'[d] = ran[d]
  BY DEF CallsInv
<1> QED
  BY <1>1 DEF CallInv, At, Count

-----------------------------------------------------------------------------
(* Each step keeps the invariant *)

\* A call is made.
LEMMA DispatchStep ==
  ASSUME Inv, NEW c \in Calls, Dispatch(c), UNCHANGED transport
  PROVE  Inv'
<1> USE StagesAre DEF Inv
<1>1. Frame(c)
  BY DEF Frame, Dispatch, TypeOK, None
<1>2. \/ transport = "stdio" /\ session # None /\ Effect(c, "first", session, session, call[c].run)
      \/ transport = "stdio" /\ session = None /\ Goes(c, "waiting")
      \/ transport = "streamable_http" /\ Goes(c, "queued")
      \/ Goes(c, "done")
  BY <1>1, BeginsEffect, MovesEffect DEF Frame, Dispatch, Ends
<1>3. holder' \in Calls \cup {NoCall} /\ waiters' \in Seq(Calls)
  BY LockTyped DEF Dispatch, Begins
<1>4. answer' \in [Calls -> Answers \cup {"none"}] /\ inbox' \in Seq(Calls)
  <2>1. CASE Ends(c, "AssertionError")
    BY <2>1, EndsTyped DEF Answers
  <2>2. CASE ~Ends(c, "AssertionError")
    <3>1. answer' = answer /\ (inbox' = inbox \/ inbox' = Append(inbox, c))
      BY <2>2 DEF Dispatch
    <3>2. answer \in [Calls -> Answers \cup {"none"}] /\ inbox \in Seq(Calls)
      BY DEF TypeOK
    <3> QED
      BY <3>1, <3>2
  <2> QED
    BY <2>1, <2>2
<1>5. TypeOK'
  BY <1>1, <1>2, <1>3, <1>4 DEF Goes, Effect, Frame, TypeOK
<1>6. CurrentIsNewest'
  BY DEF Dispatch, CurrentIsNewest, TypeOK, None
<1>7. CallsInv'
  <2>1. /\ CallInv(c) /\ call[c].run \in BOOLEAN /\ ran[c] \in Nat /\ ran' = ran
        /\ session \in Nat /\ call[c].at \in {"new", "queued"}
    BY DEF CallsInv, TypeOK, CallStates, At, Dispatch
  <2>2. CallInv(c)'
    BY <1>2, <2>1 DEF CallInv, Goes, Effect, Count, At, Respawning, None
  <2> QED
    BY <1>1, <1>2, <2>2, CallsFrom DEF Goes, Effect, Frame
<1>8. OneAtATime'
  <2>1. call'[c].at \in {"first", "waiting", "queued", "done"}
    BY <1>2 DEF Goes, Effect
  <2>2. \A d \in Calls : d # c => call'[d] = call[d]
    BY <1>2 DEF Goes, Effect
  <2>3. \A d \in Calls : Holds(d) => Holds(d)'
    BY NoCallIsNone DEF Dispatch, Begins, Acquires, Holds
  <2>4. ASSUME transport = "stdio", NEW d \in Calls, call'[d].at \in Respawning
        PROVE  Holds(d)'
    BY <2>1, <2>2, <2>3, <2>4 DEF OneAtATime, Respawning
  <2>5. ASSUME transport = "streamable_http", NEW d \in Calls, Active(d)'
        PROVE  inbox' # <<>> /\ Head(inbox') = d
    <3>1. d # c
      BY <1>2, <2>5 DEF Goes, Effect, Active
    <3>2. inbox # <<>> /\ Head(inbox) = d
      BY <2>2, <2>5, <3>1 DEF OneAtATime, Active
    <3>3. inbox \in Seq(Calls) /\ (inbox' = inbox \/ inbox' = Append(inbox, c))
      BY <2>5, <3>1, <3>2 DEF Dispatch, Ends, TypeOK
    <3> QED
      BY <3>2, <3>3
  <2> QED
    BY <2>4, <2>5 DEF OneAtATime
<1>9. OneServer'
  BY <1>1
  DEF Dispatch, Frame, At, Respawning, OneServer, NoServerWhileRespawning,
      CurrentIsNewest, TypeOK, None
<1>10. NoServerWhileRespawning'
  BY <1>1, <1>2
  DEF Dispatch, Frame, At, Attempting, Attempts, Active, Respawning, OneAtATime,
      OneServer, NoServerWhileRespawning, Goes, Effect, Holds, TypeOK, Transports,
      None
<1> QED
  BY <1>5, <1>6, <1>7, <1>8, <1>9, <1>10

\* The owner task takes a call.
LEMMA ServeStep ==
  ASSUME Inv, NEW c \in Calls, Serve(c), UNCHANGED transport
  PROVE  Inv'
<1> USE StagesAre DEF Inv
<1>1. Frame(c)
  BY DEF Frame, Serve, TypeOK, None
<1>2. \/ session # None /\ Effect(c, "first", session, session, call[c].run)
      \/ session = None /\ Goes(c, "waiting")
  BY <1>1, BeginsEffect DEF Serve
<1>3. holder' \in Calls \cup {NoCall} /\ waiters' \in Seq(Calls)
  BY LockTyped DEF Serve, Begins
<1>4. answer' \in [Calls -> Answers \cup {"none"}] /\ inbox' \in Seq(Calls)
  BY DEF Serve, TypeOK
<1>5. TypeOK'
  BY <1>1, <1>2, <1>3, <1>4 DEF Goes, Effect, Frame, TypeOK
<1>6. CurrentIsNewest'
  BY DEF Serve, CurrentIsNewest, TypeOK, None
<1>7. CallsInv'
  <2>1. /\ CallInv(c) /\ call[c].run \in BOOLEAN /\ ran[c] \in Nat /\ ran' = ran
        /\ session \in Nat /\ call[c].at \in {"new", "queued"}
    BY DEF CallsInv, TypeOK, CallStates, At, Serve
  <2>2. CallInv(c)'
    BY <1>2, <2>1 DEF CallInv, Goes, Effect, Count, At, Respawning, None
  <2> QED
    BY <1>1, <1>2, <2>2, CallsFrom DEF Goes, Effect, Frame
<1>8. OneAtATime'
  <2>1. call'[c].at \in {"first", "waiting", "queued", "done"}
    BY <1>2 DEF Goes, Effect
  <2>2. \A d \in Calls : d # c => call'[d] = call[d]
    BY <1>2 DEF Goes, Effect
  <2>3. \A d \in Calls : Holds(d) => Holds(d)'
    BY NoCallIsNone DEF Serve, Begins, Acquires, Holds
  <2>4. ASSUME transport = "stdio", NEW d \in Calls, call'[d].at \in Respawning
        PROVE  Holds(d)'
    BY <2>1, <2>2, <2>3, <2>4 DEF OneAtATime, Respawning
  <2>5. ASSUME transport = "streamable_http", NEW d \in Calls, Active(d)'
        PROVE  inbox' # <<>> /\ Head(inbox') = d
    <3>1. UNCHANGED inbox /\ inbox # <<>> /\ Head(inbox) = c
      BY DEF Serve
    <3>2. d # c => inbox # <<>> /\ Head(inbox) = d
      BY <2>2, <2>5 DEF OneAtATime, Active
    <3> QED
      BY <3>1, <3>2
  <2> QED
    BY <2>4, <2>5 DEF OneAtATime
<1>9. OneServer'
  BY <1>1
  DEF Serve, Frame, At, Respawning, OneServer, NoServerWhileRespawning, CurrentIsNewest,
      TypeOK, None
<1>10. NoServerWhileRespawning'
  BY <1>1, <1>2
  DEF Serve, Frame, At, Attempting, Attempts, Active, Respawning, OneAtATime, OneServer,
      NoServerWhileRespawning, Goes, Effect, Holds, TypeOK, None
<1> QED
  BY <1>5, <1>6, <1>7, <1>8, <1>9, <1>10

\* The server executes a call.
LEMMA ExecuteStep ==
  ASSUME Inv, NEW c \in Calls, Execute(c), UNCHANGED transport
  PROVE  Inv'
<1> USE StagesAre DEF Inv
<1>1. Frame(c)
  BY DEF Frame, Execute, TypeOK, None
<1>2. Effect(c, call[c].at, call[c].pre, call[c].gen, TRUE)
  <2> DEFINE new == [call[c] EXCEPT !.run = TRUE]
  <2>1. call[c] \in CallStates /\ CallStates' = CallStates
    BY DEF Execute, CallStates, TypeOK
  <2>2. new \in CallStates'
    BY <2>1 DEF CallStates
  <2>3. call' = [call EXCEPT ![c] = new]
    BY DEF Execute, TypeOK
  <2>4. call' \in [Calls -> CallStates']
    BY <2>1, <2>2, <2>3 DEF TypeOK
  <2>5. call'[c] = new /\ \A d \in Calls : d # c => call'[d] = call[d]
    BY <2>3 DEF TypeOK
  <2> QED
    BY <2>1, <2>4, <2>5 DEF Goes, Effect, CallStates
<1>3. holder' \in Calls \cup {NoCall} /\ waiters' \in Seq(Calls)
  BY LockTyped DEF Execute
<1>4. answer' \in [Calls -> Answers \cup {"none"}] /\ inbox' \in Seq(Calls)
  BY DEF Execute, TypeOK
<1>5. TypeOK'
  BY <1>1, <1>2, <1>3, <1>4 DEF Goes, Effect, Frame, TypeOK
<1>6. CurrentIsNewest'
  BY DEF Execute, CurrentIsNewest, TypeOK, None
<1>7. CallsInv'
  <2>1. CallInv(c) /\ call[c] \in CallStates /\ ran[c] \in Nat
    BY DEF CallsInv, TypeOK
  <2>2. CallInv(c)'
    BY <1>1, <1>2, <2>1
    DEF Execute, Frame, CallInv, Goes, Effect, Count, At, Attempting, Attempts,
        Respawning, None, CallStates, CurrentIsNewest, TypeOK
  <2> QED
    BY <1>1, <1>2, <2>2, CallsFrom DEF Goes, Effect, Frame
<1>8. OneAtATime'
  BY <1>2, NoCallIsNone
  DEF Execute, OneAtATime, Active, Goes, Effect, At, Attempting, Attempts, Respawning,
      Holds, TypeOK
<1>9. OneServer'
  BY <1>1
  DEF Execute, Frame, At, Respawning, OneServer, NoServerWhileRespawning,
      CurrentIsNewest, TypeOK, None
<1>10. NoServerWhileRespawning'
  BY <1>1, <1>2
  DEF Execute, Frame, At, Attempting, Attempts, Active, Respawning, OneAtATime,
      OneServer, NoServerWhileRespawning, Goes, Effect, Holds, TypeOK, Transports,
      None
<1> QED
  BY <1>5, <1>6, <1>7, <1>8, <1>9, <1>10

\* An attempt succeeds.
LEMMA ReplyStep ==
  ASSUME Inv, NEW c \in Calls, Reply(c), UNCHANGED transport
  PROVE  Inv'
<1> USE StagesAre DEF Inv
<1>1. Frame(c)
  BY DEF Frame, Reply, TypeOK, None
<1>2. Goes(c, "done")
  BY <1>1, MovesEffect DEF Frame, Reply, Ends
<1>3. holder' \in Calls \cup {NoCall} /\ waiters' \in Seq(Calls)
  BY LockTyped DEF Reply
<1>4. answer' \in [Calls -> Answers \cup {"none"}] /\ inbox' \in Seq(Calls)
  BY EndsTyped DEF Reply, Answers, TypeOK
<1>5. TypeOK'
  BY <1>1, <1>2, <1>3, <1>4 DEF Goes, Effect, Frame, TypeOK
<1>6. CurrentIsNewest'
  BY DEF Reply, CurrentIsNewest, TypeOK, None
<1>7. CallsInv'
  <2>1. CallInv(c) /\ call[c] \in CallStates /\ ran[c] \in Nat
    BY DEF CallsInv, TypeOK
  <2>2. CallInv(c)'
    BY <1>1, <1>2, <2>1
    DEF Reply, Frame, CallInv, Goes, Effect, Count, At, Attempting, Attempts, Respawning,
        None, CallStates, CurrentIsNewest, TypeOK
  <2> QED
    BY <1>1, <1>2, <2>2, CallsFrom DEF Goes, Effect, Frame
<1>8. OneAtATime'
  BY <1>2, NoCallIsNone
  DEF Reply, Ends, OneAtATime, Active, Goes, Effect, At, Attempting, Attempts,
      Respawning, Holds, TypeOK
<1>9. OneServer'
  BY <1>1
  DEF Reply, Frame, At, Respawning, OneServer, NoServerWhileRespawning, CurrentIsNewest,
      TypeOK, None
<1>10. NoServerWhileRespawning'
  BY <1>1, <1>2
  DEF Reply, Frame, At, Attempting, Attempts, Active, Respawning, OneAtATime, OneServer,
      NoServerWhileRespawning, Goes, Effect, Holds, TypeOK, None
<1> QED
  BY <1>5, <1>6, <1>7, <1>8, <1>9, <1>10

\* An attempt fails.
LEMMA RefuseStep ==
  ASSUME Inv, NEW c \in Calls, Refuse(c), UNCHANGED transport
  PROVE  Inv'
<1> USE StagesAre DEF Inv
<1>1. Frame(c)
  BY DEF Frame, Refuse, TypeOK, None
<1>2. Goes(c, "done")
  BY <1>1, MovesEffect DEF Frame, Refuse, Ends
<1>3. holder' \in Calls \cup {NoCall} /\ waiters' \in Seq(Calls)
  BY LockTyped DEF Refuse
<1>4. answer' \in [Calls -> Answers \cup {"none"}] /\ inbox' \in Seq(Calls)
  BY EndsTyped DEF Refuse, Answers, TypeOK
<1>5. TypeOK'
  BY <1>1, <1>2, <1>3, <1>4 DEF Goes, Effect, Frame, TypeOK
<1>6. CurrentIsNewest'
  BY DEF Refuse, CurrentIsNewest, TypeOK, None
<1>7. CallsInv'
  <2>1. CallInv(c) /\ call[c] \in CallStates /\ ran[c] \in Nat
    BY DEF CallsInv, TypeOK
  <2>2. CallInv(c)'
    BY <1>1, <1>2, <2>1
    DEF Refuse, Frame, CallInv, Goes, Effect, Count, At, Attempting, Attempts,
        Respawning, None, CallStates, CurrentIsNewest, TypeOK
  <2> QED
    BY <1>1, <1>2, <2>2, CallsFrom DEF Goes, Effect, Frame
<1>8. OneAtATime'
  BY <1>2, NoCallIsNone
  DEF Refuse, Ends, OneAtATime, Active, Goes, Effect, At, Attempting, Attempts,
      Respawning, Holds, TypeOK
<1>9. OneServer'
  BY <1>1
  DEF Refuse, Frame, At, Respawning, OneServer, NoServerWhileRespawning, CurrentIsNewest,
      TypeOK, None
<1>10. NoServerWhileRespawning'
  BY <1>1, <1>2
  DEF Refuse, Frame, At, Attempting, Attempts, Active, Respawning, OneAtATime, OneServer,
      NoServerWhileRespawning, Goes, Effect, Holds, TypeOK, None
<1> QED
  BY <1>5, <1>6, <1>7, <1>8, <1>9, <1>10

\* An attempt breaks.
LEMMA BreakStep ==
  ASSUME Inv, NEW c \in Calls, Break(c), UNCHANGED transport
  PROVE  Inv'
<1> USE StagesAre DEF Inv
<1>1. Frame(c)
  BY DEF Frame, Break, TypeOK, None
<1>2. \/ At(c, "first") /\ Goes(c, "waiting")
      \/ Goes(c, "done")
  BY <1>1, MovesEffect DEF Frame, Break, Ends
<1>3. holder' \in Calls \cup {NoCall} /\ waiters' \in Seq(Calls)
  BY LockTyped DEF Break
<1>4. answer' \in [Calls -> Answers \cup {"none"}] /\ inbox' \in Seq(Calls)
  BY EndsTyped DEF Break, Answers, TypeOK
<1>5. TypeOK'
  BY <1>1, <1>2, <1>3, <1>4 DEF Goes, Effect, Frame, TypeOK
<1>6. CurrentIsNewest'
  BY DEF Break, CurrentIsNewest, TypeOK, None
<1>7. CallsInv'
  <2>1. CallInv(c) /\ call[c].run \in BOOLEAN /\ ran[c] \in Nat /\ ran' = ran
    BY DEF CallsInv, TypeOK, CallStates, Break
  <2>2. CallInv(c)'
    BY <1>2, <2>1 DEF CallInv, Goes, Effect, Count, At, Respawning, None
  <2> QED
    BY <1>1, <1>2, <2>2, CallsFrom DEF Goes, Effect, Frame
<1>8. OneAtATime'
  BY <1>2, NoCallIsNone
  DEF Break, Ends, OneAtATime, Active, Goes, Effect, At, Attempting, Attempts,
      Respawning, Holds, TypeOK, Acquires
<1>9. OneServer'
  BY <1>1
  DEF Break, Frame, At, Respawning, OneServer, NoServerWhileRespawning, CurrentIsNewest,
      TypeOK, None
<1>10. NoServerWhileRespawning'
  BY <1>1, <1>2
  DEF Break, Frame, At, Attempting, Attempts, Active, Respawning, OneAtATime, OneServer,
      NoServerWhileRespawning, Goes, Effect, Holds, TypeOK, None
<1> QED
  BY <1>5, <1>6, <1>7, <1>8, <1>9, <1>10

\* A remote failure cancels an attempt.
LEMMA RemoteCancelStep ==
  ASSUME Inv, NEW c \in Calls, RemoteCancel(c), UNCHANGED transport
  PROVE  Inv'
<1> USE StagesAre DEF Inv
<1>1. Frame(c)
  <2>1. UNCHANGED <<spawned, ran, unload, session>> /\ alive' \subseteq alive
    BY DEF RemoteCancel
  <2> QED
    BY <2>1 DEF Frame, TypeOK
<1>2. \/ At(c, "first") /\ Goes(c, "teardown")
      \/ ~At(c, "first") /\ Goes(c, "done")
  BY <1>1, MovesEffect DEF Frame, RemoteCancel, Ends
<1>3. holder' \in Calls \cup {NoCall} /\ waiters' \in Seq(Calls)
  BY LockTyped DEF RemoteCancel
<1>4. answer' \in [Calls -> Answers \cup {"none"}] /\ inbox' \in Seq(Calls)
  BY EndsTyped DEF RemoteCancel, Answers, TypeOK
<1>5. TypeOK'
  BY <1>1, <1>2, <1>3, <1>4 DEF Goes, Effect, Frame, TypeOK
<1>6. CurrentIsNewest'
  BY DEF RemoteCancel, CurrentIsNewest, TypeOK, None
<1>7. CallsInv'
  <2>1. CallInv(c) /\ call[c] \in CallStates /\ ran[c] \in Nat
    BY DEF CallsInv, TypeOK
  <2>2. CallInv(c)'
    BY <1>1, <1>2, <2>1
    DEF RemoteCancel, Frame, CallInv, Goes, Effect, Count, At, Attempting, Attempts,
        Respawning, None, CallStates, CurrentIsNewest, TypeOK
  <2> QED
    BY <1>1, <1>2, <2>2, CallsFrom DEF Goes, Effect, Frame
<1>8. OneAtATime'
  BY <1>2, NoCallIsNone
  DEF RemoteCancel, Ends, OneAtATime, Active, Goes, Effect, At, Attempting, Attempts,
      Respawning, Holds, TypeOK
<1>9. OneServer'
  BY <1>1
  DEF RemoteCancel, Frame, At, Respawning, OneServer, NoServerWhileRespawning,
      CurrentIsNewest, TypeOK, None
<1>10. NoServerWhileRespawning'
  BY <1>1, <1>2
  DEF RemoteCancel, Frame, At, Attempting, Attempts, Active, Respawning, OneAtATime,
      OneServer, NoServerWhileRespawning, Goes, Effect, Holds, TypeOK, Transports,
      None
<1> QED
  BY <1>5, <1>6, <1>7, <1>8, <1>9, <1>10

\* A call decides to respawn.
LEMMA LockRespawnsStep ==
  ASSUME Inv, NEW c \in Calls, LockRespawns(c), UNCHANGED transport
  PROVE  Inv'
<1> USE StagesAre DEF Inv
<1>1. Frame(c)
  <2>1. UNCHANGED <<spawned, ran, unload, session>> /\ alive' \subseteq alive
    BY DEF LockRespawns
  <2> QED
    BY <2>1 DEF Frame, TypeOK
<1>2. \/ session # None /\ Goes(c, "teardown")
      \/ session = None /\ Goes(c, "spawning")
  BY <1>1, MovesEffect DEF Frame, LockRespawns
<1>3. holder' \in Calls \cup {NoCall} /\ waiters' \in Seq(Calls)
  BY LockTyped DEF LockRespawns
<1>4. answer' \in [Calls -> Answers \cup {"none"}] /\ inbox' \in Seq(Calls)
  BY DEF LockRespawns, TypeOK
<1>5. TypeOK'
  BY <1>1, <1>2, <1>3, <1>4 DEF Goes, Effect, Frame, TypeOK
<1>6. CurrentIsNewest'
  BY DEF LockRespawns, CurrentIsNewest, TypeOK, None
<1>7. CallsInv'
  <2>1. CallInv(c) /\ call[c] \in CallStates /\ ran[c] \in Nat
    BY DEF CallsInv, TypeOK
  <2>2. CallInv(c)'
    BY <1>1, <1>2, <2>1
    DEF LockRespawns, Frame, CallInv, Goes, Effect, Count, At, Attempting, Attempts,
        Respawning, None, CallStates, CurrentIsNewest, TypeOK
  <2> QED
    BY <1>1, <1>2, <2>2, CallsFrom DEF Goes, Effect, Frame
<1>8. OneAtATime'
  BY <1>2, NoCallIsNone
  DEF LockRespawns, OneAtATime, Active, Goes, Effect, At, Attempting, Attempts,
      Respawning, Holds, TypeOK
<1>9. OneServer'
  BY <1>1
  DEF LockRespawns, Frame, At, Respawning, OneServer, NoServerWhileRespawning,
      CurrentIsNewest, TypeOK, None
<1>10. NoServerWhileRespawning'
  BY <1>1, <1>2
  DEF LockRespawns, Frame, At, Attempting, Attempts, Active, Respawning, OneAtATime,
      OneServer, NoServerWhileRespawning, Goes, Effect, Holds, TypeOK, Transports,
      None
<1> QED
  BY <1>5, <1>6, <1>7, <1>8, <1>9, <1>10

\* A call takes the session of another.
LEMMA LockReusesStep ==
  ASSUME Inv, NEW c \in Calls, LockReuses(c), UNCHANGED transport
  PROVE  Inv'
<1> USE StagesAre DEF Inv
<1>1. Frame(c)
  BY DEF Frame, LockReuses, TypeOK, None
<1>2. Effect(c, IF call[c].pre = None THEN "only" ELSE "retry", call[c].pre, session, FALSE)
  <2>1. session \in Nat /\ session <= spawned'
    BY DEF LockReuses, TypeOK
  <2> QED
    BY <1>1, <2>1, TriesEffect DEF Frame, LockReuses
<1>3. holder' \in Calls \cup {NoCall} /\ waiters' \in Seq(Calls)
  BY LockTyped DEF LockReuses
<1>4. answer' \in [Calls -> Answers \cup {"none"}] /\ inbox' \in Seq(Calls)
  BY DEF LockReuses, TypeOK
<1>5. TypeOK'
  BY <1>1, <1>2, <1>3, <1>4 DEF Goes, Effect, Frame, TypeOK
<1>6. CurrentIsNewest'
  BY DEF LockReuses, CurrentIsNewest, TypeOK, None
<1>7. CallsInv'
  <2>1. CallInv(c) /\ call[c] \in CallStates /\ ran[c] \in Nat
    BY DEF CallsInv, TypeOK
  <2>2. CallInv(c)'
    BY <1>1, <1>2, <2>1
    DEF LockReuses, Frame, CallInv, Goes, Effect, Count, At, Attempting, Attempts,
        Respawning, None, CallStates, CurrentIsNewest, TypeOK
  <2> QED
    BY <1>1, <1>2, <2>2, CallsFrom DEF Goes, Effect, Frame
<1>8. OneAtATime'
  BY <1>2, NoCallIsNone
  DEF LockReuses, OneAtATime, Active, Goes, Effect, At, Attempting, Attempts, Respawning,
      Holds, TypeOK, Releases
<1>9. OneServer'
  BY <1>1
  DEF LockReuses, Frame, At, Respawning, OneServer, NoServerWhileRespawning,
      CurrentIsNewest, TypeOK, None
<1>10. NoServerWhileRespawning'
  BY <1>1, <1>2
  DEF LockReuses, Frame, At, Attempting, Attempts, Active, Respawning, OneAtATime,
      OneServer, NoServerWhileRespawning, Goes, Effect, Holds, TypeOK, Transports,
      None
<1> QED
  BY <1>5, <1>6, <1>7, <1>8, <1>9, <1>10

\* A call finds no session.
LEMMA LockAssertsStep ==
  ASSUME Inv, NEW c \in Calls, LockAsserts(c), UNCHANGED transport
  PROVE  Inv'
<1> USE StagesAre DEF Inv
<1>1. Frame(c)
  BY DEF Frame, LockAsserts, TypeOK, None
<1>2. Goes(c, "done")
  BY <1>1, MovesEffect DEF Frame, LockAsserts, EndsUnlocked, Ends
<1>3. holder' \in Calls \cup {NoCall} /\ waiters' \in Seq(Calls)
  BY LockTyped DEF LockAsserts, EndsUnlocked
<1>4. answer' \in [Calls -> Answers \cup {"none"}] /\ inbox' \in Seq(Calls)
  BY EndsTyped DEF LockAsserts, EndsUnlocked, Answers, TypeOK
<1>5. TypeOK'
  BY <1>1, <1>2, <1>3, <1>4 DEF Goes, Effect, Frame, TypeOK
<1>6. CurrentIsNewest'
  BY DEF LockAsserts, CurrentIsNewest, TypeOK, None
<1>7. CallsInv'
  <2>1. CallInv(c) /\ call[c] \in CallStates /\ ran[c] \in Nat
    BY DEF CallsInv, TypeOK
  <2>2. CallInv(c)'
    BY <1>1, <1>2, <2>1
    DEF LockAsserts, Frame, CallInv, Goes, Effect, Count, At, Attempting, Attempts,
        Respawning, None, CallStates, CurrentIsNewest, TypeOK
  <2> QED
    BY <1>1, <1>2, <2>2, CallsFrom DEF Goes, Effect, Frame
<1>8. OneAtATime'
  BY <1>2, NoCallIsNone
  DEF LockAsserts, Ends, OneAtATime, Active, Goes, Effect, At, Attempting, Attempts,
      Respawning, Holds, TypeOK, EndsUnlocked, Releases
<1>9. OneServer'
  BY <1>1
  DEF LockAsserts, Frame, At, Respawning, OneServer, NoServerWhileRespawning,
      CurrentIsNewest, TypeOK, None
<1>10. NoServerWhileRespawning'
  BY <1>1, <1>2
  DEF LockAsserts, Frame, At, Attempting, Attempts, Active, Respawning, OneAtATime,
      OneServer, NoServerWhileRespawning, Goes, Effect, Holds, TypeOK, Transports,
      None
<1> QED
  BY <1>5, <1>6, <1>7, <1>8, <1>9, <1>10

\* A session is closed.
LEMMA TearDownStep ==
  ASSUME Inv, NEW c \in Calls, TearDown(c), UNCHANGED transport
  PROVE  Inv'
<1> USE StagesAre DEF Inv
<1>1. Frame(c)
  BY DEF Frame, TearDown, TypeOK, None
<1>2. Goes(c, "spawning")
  BY <1>1, MovesEffect DEF Frame, TearDown
<1>3. holder' \in Calls \cup {NoCall} /\ waiters' \in Seq(Calls)
  BY LockTyped DEF TearDown
<1>4. answer' \in [Calls -> Answers \cup {"none"}] /\ inbox' \in Seq(Calls)
  BY DEF TearDown, TypeOK
<1>5. TypeOK'
  BY <1>1, <1>2, <1>3, <1>4 DEF Goes, Effect, Frame, TypeOK
<1>6. CurrentIsNewest'
  BY DEF TearDown, CurrentIsNewest, TypeOK, None
<1>7. CallsInv'
  <2>1. CallInv(c) /\ call[c] \in CallStates /\ ran[c] \in Nat
    BY DEF CallsInv, TypeOK
  <2>2. CallInv(c)'
    BY <1>1, <1>2, <2>1
    DEF TearDown, Frame, CallInv, Goes, Effect, Count, At, Attempting, Attempts,
        Respawning, None, CallStates, CurrentIsNewest, TypeOK
  <2> QED
    BY <1>1, <1>2, <2>2, CallsFrom DEF Goes, Effect, Frame
<1>8. OneAtATime'
  BY <1>2, NoCallIsNone
  DEF TearDown, OneAtATime, Active, Goes, Effect, At, Attempting, Attempts, Respawning,
      Holds, TypeOK
<1>9. OneServer'
  BY <1>1
  DEF TearDown, Frame, At, Respawning, OneServer, NoServerWhileRespawning,
      CurrentIsNewest, TypeOK, None
<1>10. NoServerWhileRespawning'
  BY <1>1, <1>2
  DEF TearDown, Frame, At, Attempting, Attempts, Active, Respawning, OneAtATime,
      OneServer, NoServerWhileRespawning, Goes, Effect, Holds, TypeOK, Transports,
      None
<1> QED
  BY <1>5, <1>6, <1>7, <1>8, <1>9, <1>10

\* A session is spawned.
LEMMA SpawnSucceedsStep ==
  ASSUME Inv, NEW c \in Calls, SpawnSucceeds(c), UNCHANGED transport
  PROVE  Inv'
<1> USE StagesAre DEF Inv
<1>1. Frame(c)
  BY DEF Frame, SpawnSucceeds, TypeOK, None
<1>2. \/ /\ Holds(c)
         /\ Effect(c, IF call[c].pre = None THEN "only" ELSE "retry", call[c].pre, spawned + 1, FALSE)
      \/ /\ ~Holds(c)
         /\ Goes(c, "done")
  <2>1. CASE Holds(c)
    <3>1. spawned + 1 \in Nat /\ spawned + 1 <= spawned'
      BY DEF SpawnSucceeds, TypeOK
    <3> QED
      BY <1>1, <2>1, <3>1, TriesEffect DEF Frame, SpawnSucceeds
  <2>2. CASE ~Holds(c)
    BY <1>1, <2>2, MovesEffect DEF Frame, SpawnSucceeds, Ends
  <2> QED
    BY <2>1, <2>2
<1>3. holder' \in Calls \cup {NoCall} /\ waiters' \in Seq(Calls)
  BY LockTyped DEF SpawnSucceeds
<1>4. answer' \in [Calls -> Answers \cup {"none"}] /\ inbox' \in Seq(Calls)
  BY EndsTyped DEF SpawnSucceeds, Answers, TypeOK
<1>5. TypeOK'
  BY <1>1, <1>2, <1>3, <1>4 DEF Goes, Effect, Frame, TypeOK
<1>6. CurrentIsNewest'
  BY DEF SpawnSucceeds, CurrentIsNewest, TypeOK, None
<1>7. CallsInv'
  <2>1. CallInv(c) /\ call[c] \in CallStates /\ ran[c] \in Nat
    BY DEF CallsInv, TypeOK
  <2>2. CallInv(c)'
    BY <1>1, <1>2, <2>1, SMTT(20)
    DEF SpawnSucceeds, Frame, CallInv, Goes, Effect, Count, At, Attempting, Attempts,
        Respawning, None, CallStates, CurrentIsNewest, TypeOK
  <2> QED
    BY <1>1, <1>2, <2>2, CallsFrom DEF Goes, Effect, Frame
<1>8. OneAtATime'
  BY <1>2, NoCallIsNone
  DEF SpawnSucceeds, Ends, OneAtATime, Active, Goes, Effect, At, Attempting, Attempts,
      Respawning, Holds, TypeOK, Releases
<1>9. OneServer'
  BY <1>1
  DEF SpawnSucceeds, Frame, At, Respawning, OneServer, NoServerWhileRespawning,
      CurrentIsNewest, TypeOK, None
<1>10. NoServerWhileRespawning'
  BY <1>1, <1>2
  DEF SpawnSucceeds, Frame, At, Attempting, Attempts, Active, Respawning, OneAtATime,
      OneServer, NoServerWhileRespawning, Goes, Effect, Holds, TypeOK, Transports,
      None
<1> QED
  BY <1>5, <1>6, <1>7, <1>8, <1>9, <1>10

\* A session cannot be spawned.
LEMMA SpawnFailsStep ==
  ASSUME Inv, NEW c \in Calls, SpawnFails(c), UNCHANGED transport
  PROVE  Inv'
<1> USE StagesAre DEF Inv
<1>1. Frame(c)
  BY DEF Frame, SpawnFails, TypeOK, None
<1>2. Goes(c, "done")
  BY <1>1, MovesEffect DEF Frame, SpawnFails, EndsUnlocked, Ends
<1>3. holder' \in Calls \cup {NoCall} /\ waiters' \in Seq(Calls)
  BY LockTyped DEF SpawnFails, EndsUnlocked
<1>4. answer' \in [Calls -> Answers \cup {"none"}] /\ inbox' \in Seq(Calls)
  BY EndsTyped DEF SpawnFails, EndsUnlocked, Answers, TypeOK
<1>5. TypeOK'
  BY <1>1, <1>2, <1>3, <1>4 DEF Goes, Effect, Frame, TypeOK
<1>6. CurrentIsNewest'
  BY DEF SpawnFails, CurrentIsNewest, TypeOK, None
<1>7. CallsInv'
  <2>1. CallInv(c) /\ call[c] \in CallStates /\ ran[c] \in Nat
    BY DEF CallsInv, TypeOK
  <2>2. CallInv(c)'
    BY <1>1, <1>2, <2>1
    DEF SpawnFails, Frame, CallInv, Goes, Effect, Count, At, Attempting, Attempts,
        Respawning, None, CallStates, CurrentIsNewest, TypeOK
  <2> QED
    BY <1>1, <1>2, <2>2, CallsFrom DEF Goes, Effect, Frame
<1>8. OneAtATime'
  BY <1>2, NoCallIsNone
  DEF SpawnFails, Ends, OneAtATime, Active, Goes, Effect, At, Attempting, Attempts,
      Respawning, Holds, TypeOK, EndsUnlocked, Releases
<1>9. OneServer'
  BY <1>1
  DEF SpawnFails, Frame, At, Respawning, OneServer, NoServerWhileRespawning,
      CurrentIsNewest, TypeOK, None
<1>10. NoServerWhileRespawning'
  BY <1>1, <1>2
  DEF SpawnFails, Frame, At, Attempting, Attempts, Active, Respawning, OneAtATime,
      OneServer, NoServerWhileRespawning, Goes, Effect, Holds, TypeOK, Transports,
      None
<1> QED
  BY <1>5, <1>6, <1>7, <1>8, <1>9, <1>10

\* A call is cancelled at its deadline.
LEMMA DeadlineInTaskStep ==
  ASSUME Inv, NEW c \in Calls, DeadlineInTask(c), UNCHANGED transport
  PROVE  Inv'
<1> USE StagesAre DEF Inv
<1>1. Frame(c)
  BY DEF Frame, DeadlineInTask, TypeOK, None
<1>2. Goes(c, "done")
  BY <1>1, MovesEffect DEF Frame, DeadlineInTask, Ends
<1>3. holder' \in Calls \cup {NoCall} /\ waiters' \in Seq(Calls)
  BY LockTyped DEF DeadlineInTask
<1>4. answer' \in [Calls -> Answers \cup {"none"}] /\ inbox' \in Seq(Calls)
  BY EndsTyped DEF DeadlineInTask, Answers, TypeOK
<1>5. TypeOK'
  BY <1>1, <1>2, <1>3, <1>4 DEF Goes, Effect, Frame, TypeOK
<1>6. CurrentIsNewest'
  BY DEF DeadlineInTask, CurrentIsNewest, TypeOK, None
<1>7. CallsInv'
  <2>1. CallInv(c) /\ call[c] \in CallStates /\ ran[c] \in Nat
    BY DEF CallsInv, TypeOK
  <2>2. CallInv(c)'
    BY <1>1, <1>2, <2>1
    DEF DeadlineInTask, Frame, CallInv, Goes, Effect, Count, At, Attempting, Attempts,
        Respawning, None, CallStates, CurrentIsNewest, TypeOK
  <2> QED
    BY <1>1, <1>2, <2>2, CallsFrom DEF Goes, Effect, Frame
<1>8. OneAtATime'
  BY <1>2, NoCallIsNone
  DEF DeadlineInTask, Ends, OneAtATime, Active, Goes, Effect, At, Attempting, Attempts,
      Respawning, Holds, TypeOK, Abandons, Releases
<1>9. OneServer'
  BY <1>1
  DEF DeadlineInTask, Frame, At, Respawning, OneServer, NoServerWhileRespawning,
      CurrentIsNewest, TypeOK, None
<1>10. NoServerWhileRespawning'
  BY <1>1, <1>2
  DEF DeadlineInTask, Frame, At, Attempting, Attempts, Active, Respawning, OneAtATime,
      OneServer, NoServerWhileRespawning, Goes, Effect, Holds, TypeOK, Transports,
      None
<1> QED
  BY <1>5, <1>6, <1>7, <1>8, <1>9, <1>10

\* A server dies.
LEMMA CrashStep ==
  ASSUME Inv, Crash, UNCHANGED transport
  PROVE  Inv'
<1> USE DEF Inv, Crash
<1>1. UNCHANGED <<spawned, call, ran, holder, waiters, inbox>> /\ session' \in {session, None}
  BY DEF TypeOK
<1>2. CallStates' = CallStates
  BY <1>1 DEF CallStates
<1>3. TypeOK'
  BY <1>1, <1>2 DEF TypeOK, Answers, None
<1>4. CurrentIsNewest'
  BY <1>1 DEF CurrentIsNewest
<1>5. CallsInv'
  BY <1>1 DEF CallsInv, CallInv, At, Count
<1>6. OneAtATime'
  BY <1>1 DEF OneAtATime, Active, Holds
<1>7. OneServer' /\ NoServerWhileRespawning'
  BY <1>1 DEF OneServer, NoServerWhileRespawning, TypeOK, None
<1> QED
  BY <1>3, <1>4, <1>5, <1>6, <1>7

\* The server is being unloaded.
LEMMA StopBeginsStep ==
  ASSUME Inv, StopBegins, UNCHANGED transport
  PROVE  Inv'
<1> USE DEF Inv, StopBegins
<1>1. UNCHANGED <<spawned, call, ran, holder, waiters, inbox>> /\ session' \in {session, None}
  BY DEF TypeOK
<1>2. CallStates' = CallStates
  BY <1>1 DEF CallStates
<1>3. TypeOK'
  BY <1>1, <1>2 DEF TypeOK, Answers, None
<1>4. CurrentIsNewest'
  BY <1>1 DEF CurrentIsNewest
<1>5. CallsInv'
  BY <1>1 DEF CallsInv, CallInv, At, Count
<1>6. OneAtATime'
  BY <1>1 DEF OneAtATime, Active, Holds
<1>7. OneServer' /\ NoServerWhileRespawning'
  BY <1>1 DEF OneServer, NoServerWhileRespawning, TypeOK, None
<1> QED
  BY <1>3, <1>4, <1>5, <1>6, <1>7

\* The server is unloaded.
LEMMA StopEndsStep ==
  ASSUME Inv, StopEnds, UNCHANGED transport
  PROVE  Inv'
<1> USE DEF Inv, StopEnds
<1>1. UNCHANGED <<spawned, call, ran, holder, waiters, inbox>> /\ session' \in {session, None}
  BY DEF TypeOK
<1>2. CallStates' = CallStates
  BY <1>1 DEF CallStates
<1>3. TypeOK'
  BY <1>1, <1>2 DEF TypeOK, Answers, None
<1>4. CurrentIsNewest'
  BY <1>1 DEF CurrentIsNewest
<1>5. CallsInv'
  BY <1>1 DEF CallsInv, CallInv, At, Count
<1>6. OneAtATime'
  BY <1>1 DEF OneAtATime, Active, Holds
<1>7. OneServer' /\ NoServerWhileRespawning'
  BY <1>1 DEF OneServer, NoServerWhileRespawning, TypeOK, None
<1> QED
  BY <1>3, <1>4, <1>5, <1>6, <1>7

\* A caller gives up waiting.
LEMMA DeadlineOfCallerStep ==
  ASSUME Inv, NEW c \in Calls, DeadlineOfCaller(c), UNCHANGED transport
  PROVE  Inv'
<1> USE DEF Inv, DeadlineOfCaller
<1>1. UNCHANGED <<spawned, call, ran, holder, waiters, inbox>> /\ session' \in {session, None}
  BY DEF TypeOK
<1>2. CallStates' = CallStates
  BY <1>1 DEF CallStates
<1>3. TypeOK'
  BY <1>1, <1>2 DEF TypeOK, Answers, None
<1>4. CurrentIsNewest'
  BY <1>1 DEF CurrentIsNewest
<1>5. CallsInv'
  BY <1>1 DEF CallsInv, CallInv, At, Count
<1>6. OneAtATime'
  BY <1>1 DEF OneAtATime, Active, Holds
<1>7. OneServer' /\ NoServerWhileRespawning'
  BY <1>1 DEF OneServer, NoServerWhileRespawning, TypeOK, None
<1> QED
  BY <1>3, <1>4, <1>5, <1>6, <1>7

\* Nothing happens.
LEMMA StutterStep ==
  ASSUME Inv, UNCHANGED vars
  PROVE  Inv'
<1> USE DEF Inv, vars
<1>1. UNCHANGED <<spawned, call, ran, holder, waiters, inbox>> /\ session' \in {session, None}
  BY DEF TypeOK
<1>2. CallStates' = CallStates
  BY <1>1 DEF CallStates
<1>3. TypeOK'
  BY <1>1, <1>2 DEF TypeOK, Answers, None
<1>4. CurrentIsNewest'
  BY <1>1 DEF CurrentIsNewest
<1>5. CallsInv'
  BY <1>1 DEF CallsInv, CallInv, At, Count
<1>6. OneAtATime'
  BY <1>1 DEF OneAtATime, Active, Holds
<1>7. OneServer' /\ NoServerWhileRespawning'
  BY <1>1 DEF OneServer, NoServerWhileRespawning, TypeOK, None
<1> QED
  BY <1>3, <1>4, <1>5, <1>6, <1>7

-----------------------------------------------------------------------------

LEMMA InvInit == Init => Inv
<1> SUFFICES ASSUME Init PROVE Inv
  OBVIOUS
<1> USE DEF Init
<1>1. TypeOK
  <2>1. NewCall \in CallStates
    BY DEF NewCall, CallStates, Stages, None
  <2> QED
    BY <2>1 DEF TypeOK
<1>2. CurrentIsNewest /\ OneServer
  BY DEF CurrentIsNewest, OneServer
<1>3. \A c \in Calls : At(c, "new") /\ call[c].pre = None /\ ~call[c].run /\ ran[c] = 0
  BY DEF At, NewCall
<1>4. CallsInv
  <2> HIDE DEF Init
  <2> SUFFICES ASSUME NEW c \in Calls PROVE CallInv(c)
    BY DEF CallsInv
  <2>1. call[c].at = "new" /\ call[c].pre = None /\ ~call[c].run /\ ran[c] = 0
    BY <1>3 DEF At
  <2> QED
    BY <2>1 DEF CallInv, At, Respawning
<1>5. OneAtATime /\ NoServerWhileRespawning
  BY <1>3 DEF OneAtATime, NoServerWhileRespawning, Active, At, Respawning
<1> QED
  BY <1>1, <1>2, <1>4, <1>5 DEF Inv

LEMMA InvNext == Inv /\ [Next]_vars => Inv'
  BY DispatchStep, ServeStep, ExecuteStep, ReplyStep, RefuseStep,
     BreakStep, RemoteCancelStep, LockRespawnsStep, LockReusesStep, LockAssertsStep,
     TearDownStep, SpawnSucceedsStep, SpawnFailsStep, DeadlineInTaskStep, CrashStep,
     StopBeginsStep, StopEndsStep, DeadlineOfCallerStep, StutterStep
  DEF Next, AttemptEnds, Supervise, Deadline

THEOREM InvAlways == Spec => []Inv
  BY InvInit, InvNext, PTL DEF Spec

\* Every session, call, answer and queue of LiveSession is well formed.
THEOREM TypeCorrect == Spec => []TypeOK
  BY InvAlways, PTL DEF Inv

\* _with_retry: a call is executed at most twice, and the second time only on
\* another session than the one it found.
THEOREM RetryOnceAlways == Spec => []RetryOnce
<1>1. Inv => RetryOnce
  BY DEF Inv, CallsInv, CallInv, RetryOnce
<1> QED
  BY <1>1, InvAlways, PTL

\* _with_retry: the retry is made on a session spawned after the one that died.
THEOREM RetriesOnNewerSessionAlways == Spec => []RetriesOnNewerSession
<1>1. Inv => RetriesOnNewerSession
  BY DEF Inv, CallsInv, CallInv, RetriesOnNewerSession
<1> QED
  BY <1>1, InvAlways, PTL

\* _respawn_lock and _owner_loop: one call at a time closes and spawns sessions.
THEOREM RespawnIsSerializedAlways == Spec => []RespawnIsSerialized
<1>1. Inv => RespawnIsSerialized
  BY DEF Inv, TypeOK, Transports, OneAtATime, RespawnIsSerialized, Active, Respawning, Holds
<1> QED
  BY <1>1, InvAlways, PTL

\* _respawn_with_backoff: the server of a replaced session is not left running.
THEOREM OneServerAlways == Spec => []OneServer
  BY InvAlways, PTL DEF Inv

-----------------------------------------------------------------------------
(* The lock is handed on.  A step of call c does one of four things to it. *)

Engaged == {"waiting"} \cup Respawning

\* Call c moves to stage a; the others stay where they are.
Turns(c, a) == call'[c].at = a /\ \A d \in Calls : d # c => call'[d] = call[d]

\* A call that has nothing to do with the lock asks for it.
LEMMA AskKeeps ==
  ASSUME TypeOK, LockIsPassedOn, NEW c \in Calls, call[c].at \notin Engaged,
         Turns(c, "waiting"), Acquires(c)
  PROVE  LockIsPassedOn'
<1> USE NoCallIsNone DEF Turns, Engaged, LockIsPassedOn, At, Holds, Respawning
<1>1. waiters \in Seq(Calls) /\ holder \in Calls \cup {NoCall}
  BY DEF TypeOK
<1>2. CASE holder = NoCall
  BY <1>1, <1>2 DEF Acquires
<1>3. CASE holder # NoCall
  <2>1. waiters' = Append(waiters, c) /\ holder' = holder
    BY <1>3 DEF Acquires
  <2>2. \A i \in DOMAIN waiters : waiters[i] # c /\ waiters[i] \in Calls
    BY <1>1
  <2>3. /\ \A i \in DOMAIN waiters : i \in DOMAIN waiters' /\ waiters'[i] = waiters[i]
        /\ Len(waiters) + 1 \in DOMAIN waiters' /\ waiters'[Len(waiters) + 1] = c
        /\ \A i \in DOMAIN waiters' : i \in DOMAIN waiters \/ i = Len(waiters) + 1
    BY <1>1, <2>1
  <2> QED
    BY <1>1, <1>3, <2>1, <2>2, <2>3
<1> QED
  BY <1>2, <1>3

\* The holder lets go and turns to something else.
LEMMA ReleaseKeeps ==
  ASSUME TypeOK, LockIsPassedOn, NEW c \in Calls, NEW a, a \notin Engaged,
         Holds(c), Turns(c, a), Releases
  PROVE  LockIsPassedOn'
<1> USE NoCallIsNone DEF Turns, Engaged, LockIsPassedOn, At, Holds, Respawning
<1>1. waiters \in Seq(Calls) /\ holder = c
  BY DEF TypeOK
<1>2. CASE waiters = <<>>
  BY <1>1, <1>2 DEF Releases
<1>3. CASE waiters # <<>>
  <2>1. waiters' = Tail(waiters) /\ holder' = waiters[1] /\ 1 \in DOMAIN waiters
    BY <1>1, <1>3 DEF Releases
  <2>2. \A i \in DOMAIN waiters : waiters[i] # c /\ waiters[i] \in Calls
    BY <1>1
  <2>3. /\ \A i \in DOMAIN waiters' : i + 1 \in DOMAIN waiters /\ i + 1 # 1
                                      /\ waiters'[i] = waiters[i + 1]
        /\ \A i \in DOMAIN waiters : i # 1 => i - 1 \in DOMAIN waiters'
                                              /\ waiters'[i - 1] = waiters[i]
    BY <1>1, <1>3, <2>1
  <2>4. \A i, j \in DOMAIN waiters' : i \in Nat /\ j \in Nat
    BY <1>1, <1>3, <2>1
  <2>5. \A i, j \in DOMAIN waiters' : waiters'[i] = waiters'[j] => i = j
    BY <2>3, <2>4
  <2>6. \A i \in DOMAIN waiters' : call'[waiters'[i]].at = "waiting" /\ holder' # waiters'[i]
    BY <2>1, <2>2, <2>3
  <2>7. ASSUME NEW d \in Calls, call'[d].at = "waiting", holder' # d
        PROVE  \E i \in DOMAIN waiters' : waiters'[i] = d
    <3>1. d # c /\ call[d].at = "waiting"
      BY <2>7
    <3>2. PICK j \in DOMAIN waiters : waiters[j] = d /\ j # 1
      BY <1>1, <2>1, <2>7, <3>1
    <3> QED
      BY <2>3, <3>2
  <2>8. /\ holder' # NoCall
        /\ \A d \in Calls : holder' = d => call'[d].at \in {"waiting"} \cup Respawning
    BY <2>1, <2>2
  <2> QED
    BY <2>5, <2>6, <2>7, <2>8
<1> QED
  BY <1>2, <1>3

\* A call that is not queued goes on, still in need of the lock if it has it.
LEMMA HoldKeeps ==
  ASSUME TypeOK, LockIsPassedOn, NEW c \in Calls, NEW a, Turns(c, a),
         a # "waiting", At(c, "waiting") => Holds(c), Holds(c) => a \in Engaged,
         UNCHANGED <<holder, waiters>>
  PROVE  LockIsPassedOn'
<1> USE NoCallIsNone DEF Turns, Engaged, LockIsPassedOn, At, Holds, Respawning
<1>1. waiters \in Seq(Calls)
  BY DEF TypeOK
<1>2. \A i \in DOMAIN waiters : waiters[i] # c /\ waiters[i] \in Calls
  BY <1>1
<1> QED
  BY <1>2

\* The elements of two sequences put together.
LEMMA Joined ==
  ASSUME NEW u \in Seq(Calls), NEW v \in Seq(Calls)
  PROVE  /\ DOMAIN (u \o v) = 1 .. (Len(u) + Len(v))
         /\ \A i \in 1 .. Len(u) : (u \o v)[i] = u[i]
         /\ \A i \in 1 .. Len(v) : (u \o v)[Len(u) + i] = v[i]
  OBVIOUS

\* r is q without its k-th element.
Shortened(r, q, k) ==
  /\ DOMAIN r = 1 .. (Len(q) - 1)
  /\ \A i \in 1 .. (Len(q) - 1) : i < k => r[i] = q[i]
  /\ \A i \in 1 .. (Len(q) - 1) : k <= i => r[i] = q[i + 1]

\* What Abandons makes of the queue.
LEMMA WithoutOne ==
  ASSUME NEW q \in Seq(Calls), NEW k \in 1 .. Len(q), NEW u, NEW v,
         u = SubSeq(q, 1, k - 1), v = SubSeq(q, k + 1, Len(q))
  PROVE  Shortened(u \o v, q, k)
<1>1. Len(q) \in Nat /\ k \in Nat /\ 1 <= k /\ k <= Len(q)
  OBVIOUS
<1>2. u \in Seq(Calls) /\ Len(u) = k - 1 /\ \A i \in 1 .. (k - 1) : u[i] = q[i]
  BY <1>1
<1>3. v \in Seq(Calls) /\ Len(v) = Len(q) - k /\ \A i \in 1 .. (Len(q) - k) : v[i] = q[k + i]
  BY <1>1
<1>4. /\ DOMAIN (u \o v) = 1 .. ((k - 1) + (Len(q) - k))
      /\ \A i \in 1 .. (k - 1) : (u \o v)[i] = u[i]
      /\ \A i \in 1 .. (Len(q) - k) : (u \o v)[(k - 1) + i] = v[i]
  <2>1. /\ DOMAIN (u \o v) = 1 .. (Len(u) + Len(v))
        /\ \A i \in 1 .. Len(u) : (u \o v)[i] = u[i]
        /\ \A i \in 1 .. Len(v) : (u \o v)[Len(u) + i] = v[i]
    BY <1>2, <1>3, Joined, Zenon
  <2>2. Len(u) = k - 1 /\ Len(v) = Len(q) - k
    BY <1>2, <1>3
  <2> QED
    BY <2>1, <2>2, Zenon
<1> DEFINE r == u \o v
<1> HIDE DEF r
<1>5. DOMAIN r = 1 .. (Len(q) - 1)
  <2>1. (k - 1) + (Len(q) - k) = Len(q) - 1
    BY <1>1
  <2> QED
    BY <1>4, <2>1 DEF r
<1>6. ASSUME NEW i \in 1 .. (Len(q) - 1), i < k
      PROVE  r[i] = q[i]
  <2>1. i \in 1 .. (k - 1)
    BY <1>1, <1>6
  <2> QED
    BY <1>2, <1>4, <2>1 DEF r
<1>7. ASSUME NEW i \in 1 .. (Len(q) - 1), k <= i
      PROVE  r[i] = q[i + 1]
  <2> DEFINE j == i - (k - 1)
  <2>1. j \in 1 .. (Len(q) - k) /\ (k - 1) + j = i /\ k + j = i + 1
    BY <1>1, <1>7
  <2> HIDE DEF j
  <2> QED
    BY <1>3, <1>4, <2>1 DEF r
<1> QED
  BY <1>5, <1>6, <1>7 DEF r, Shortened

\* A call gives up: it lets go of the lock, or leaves the queue.
LEMMA AbandonKeeps ==
  ASSUME TypeOK, LockIsPassedOn, NEW c \in Calls, Turns(c, "done"), Abandons(c)
  PROVE  LockIsPassedOn'
<1>1. CASE Holds(c)
  BY <1>1, ReleaseKeeps DEF Abandons, Engaged, Respawning
<1>2. CASE ~Holds(c) /\ \A i \in DOMAIN waiters : waiters[i] # c
  <2>1. UNCHANGED <<holder, waiters>> /\ ~At(c, "waiting")
    BY <1>2 DEF Abandons, LockIsPassedOn
  <2> QED
    BY <1>2, <2>1, HoldKeeps
<1>3. CASE ~Holds(c) /\ \E i \in DOMAIN waiters : waiters[i] = c
  <2> USE NoCallIsNone DEF Turns, LockIsPassedOn, At, Holds, Respawning
  <2>1. waiters \in Seq(Calls) /\ holder' = holder /\ holder # NoCall
    BY <1>3 DEF Abandons, TypeOK
  <2>2. PICK k \in DOMAIN waiters :
          /\ waiters[k] = c
          /\ waiters' = SubSeq(waiters, 1, k - 1) \o SubSeq(waiters, k + 1, Len(waiters))
    BY <1>3 DEF Abandons
  <2>3. /\ k \in 1 .. Len(waiters) /\ Len(waiters) \in Nat /\ DOMAIN waiters = 1 .. Len(waiters)
        /\ \A i \in DOMAIN waiters : waiters[i] \in Calls
    BY <2>1
  <2>4. /\ DOMAIN waiters' = 1 .. (Len(waiters) - 1)
        /\ \A i \in 1 .. (Len(waiters) - 1) :
             /\ i < k => waiters'[i] = waiters[i]
             /\ k <= i => waiters'[i] = waiters[i + 1]
    <3>1. Shortened(waiters', waiters, k)
      BY <2>1, <2>2, <2>3, WithoutOne, Zenon
    <3> QED
      BY <3>1 DEF Shortened
  <2>5. \A i \in DOMAIN waiters : i # k => waiters[i] # c
    BY <2>2
  <2>6. ASSUME NEW i \in DOMAIN waiters', NEW j \in DOMAIN waiters', waiters'[i] = waiters'[j]
        PROVE  i = j
    <3> DEFINE Old(n) == IF n < k THEN n ELSE n + 1
    <3>1. ASSUME NEW n \in DOMAIN waiters'
          PROVE  n \in Nat /\ Old(n) \in DOMAIN waiters /\ waiters'[n] = waiters[Old(n)]
      BY <2>3, <2>4
    <3>2. Old(i) = Old(j)
      <4>1. \A m, n \in DOMAIN waiters : waiters[m] = waiters[n] => m = n
        BY DEF LockIsPassedOn
      <4> HIDE DEF Old
      <4>2. /\ Old(i) \in DOMAIN waiters /\ waiters'[i] = waiters[Old(i)]
            /\ Old(j) \in DOMAIN waiters /\ waiters'[j] = waiters[Old(j)]
        BY <3>1
      <4>3. waiters[Old(i)] = waiters[Old(j)]
        BY <2>6, <4>2
      <4> HIDE DEF LockIsPassedOn
      <4> QED
        BY <4>1, <4>2, <4>3
    <3> QED
      BY <2>3, <3>1, <3>2
  <2>7. ASSUME NEW i \in DOMAIN waiters'
        PROVE  waiters'[i] # c /\ \E j \in DOMAIN waiters : waiters'[i] = waiters[j]
    <3>1. CASE i < k
      BY <2>3, <2>4, <2>5, <3>1
    <3>2. CASE i >= k
      <4>1. i + 1 \in DOMAIN waiters /\ i + 1 # k /\ waiters'[i] = waiters[i + 1]
        BY <2>3, <2>4, <3>2
      <4> QED
        BY <2>5, <4>1
    <3> QED
      BY <2>3, <2>4, <3>1, <3>2
  <2>8. \A i \in DOMAIN waiters' : call'[waiters'[i]].at = "waiting" /\ holder' # waiters'[i]
    BY <2>1, <2>3, <2>7
  <2>9. ASSUME NEW d \in Calls, call'[d].at = "waiting", holder' # d
        PROVE  \E i \in DOMAIN waiters' : waiters'[i] = d
    <3>0. d # c /\ call[d].at = "waiting"
      BY <2>9
    <3>1. PICK j \in DOMAIN waiters : waiters[j] = d /\ j # k
      BY <2>1, <2>2, <2>9, <3>0
    <3>2. CASE j < k
      BY <2>3, <2>4, <3>1, <3>2
    <3>3. CASE j > k
      <4>1. j - 1 \in DOMAIN waiters' /\ waiters'[j - 1] = d
        BY <2>3, <2>4, <3>1, <3>3
      <4> QED
        BY <4>1
    <3> QED
      BY <2>3, <3>1, <3>2, <3>3
  <2>10. /\ holder' # NoCall
         /\ \A d \in Calls : holder' = d => call'[d].at \in {"waiting"} \cup Respawning
    BY <1>3, <2>1
  <2> QED
    BY <2>6, <2>8, <2>9, <2>10
<1> QED
  BY <1>1, <1>2, <1>3

\* Where a step leaves the calls and the lock alone, so it does the queue.
LEMMA StillKeeps ==
  ASSUME LockIsPassedOn, UNCHANGED <<call, holder, waiters>>
  PROVE  LockIsPassedOn'
  BY DEF LockIsPassedOn, At, Holds

\* A call that makes an attempt, or has not begun, neither has the lock nor waits.
LEMMA OutsideIsFree ==
  ASSUME LockIsPassedOn, NEW c \in Calls, call[c].at \notin Engaged
  PROVE  ~Holds(c) /\ ~At(c, "waiting")
  BY DEF LockIsPassedOn, Engaged, At

LEMMA LockInit == Init => LockIsPassedOn
  BY NoCallIsNone DEF Init, LockIsPassedOn, At, Holds, NewCall

LEMMA LockNext == Inv /\ LockIsPassedOn /\ [Next]_vars => LockIsPassedOn'
<1> SUFFICES ASSUME Inv, LockIsPassedOn, [Next]_vars PROVE LockIsPassedOn'
  OBVIOUS
<1> USE DEF Inv
<1>1. ASSUME NEW c \in Calls, NEW a, Moves(c, a)
      PROVE  Turns(c, a)
  BY <1>1 DEF Moves, Turns, TypeOK, CallStates
<1>2. ASSUME NEW c \in Calls, NEW a, NEW g, Tries(c, a, g)
      PROVE  Turns(c, a)
  BY <1>2 DEF Tries, Turns, TypeOK, CallStates
<1>3. \A a \in Attempts \cup {"new", "queued", "done"} : a \notin Engaged /\ a # "waiting"
  BY DEF Attempts, Engaged, Respawning
<1>4. "teardown" \in Engaged /\ "spawning" \in Engaged
  BY DEF Engaged, Respawning
<1>5. ASSUME NEW c \in Calls, call[c].at \notin Engaged, Begins(c)
      PROVE  LockIsPassedOn'
  <2>1. CASE session # None
    <3>1. Turns(c, "first") /\ UNCHANGED <<holder, waiters>>
      BY <1>5, <2>1 DEF Begins, Turns, TypeOK, CallStates
    <3> QED
      BY <1>5, <3>1, OutsideIsFree, HoldKeeps
  <2>2. CASE session = None
    BY <1>1, <1>5, <2>2, AskKeeps DEF Begins
  <2> QED
    BY <2>1, <2>2
\* A call that is outside of the lock stays there.
<1>6. ASSUME NEW c \in Calls, call[c].at \notin Engaged, NEW a, a # "waiting", Turns(c, a),
             UNCHANGED <<holder, waiters>>
      PROVE  LockIsPassedOn'
  BY <1>6, OutsideIsFree, HoldKeeps
<1>7. ASSUME NEW c \in Calls, Attempting(c)
      PROVE  call[c].at \notin Engaged
  BY <1>3, <1>7 DEF Attempting
<1>8. ASSUME NEW c \in Calls, Dispatch(c)
      PROVE  LockIsPassedOn'
  BY <1>1, <1>3, <1>5, <1>6, <1>8 DEF Dispatch, At, Ends
<1>9. ASSUME NEW c \in Calls, Serve(c)
      PROVE  LockIsPassedOn'
  BY <1>3, <1>5, <1>9 DEF Serve, At
<1>10. ASSUME NEW c \in Calls, Execute(c)
       PROVE  LockIsPassedOn'
  <2>1. Turns(c, call[c].at)
    BY <1>10 DEF Execute, Turns, TypeOK, CallStates
  <2> QED
    BY <1>6, <1>7, <1>10, <2>1 DEF Execute, Engaged
<1>11. ASSUME NEW c \in Calls, Reply(c) \/ Refuse(c)
       PROVE  LockIsPassedOn'
  BY <1>1, <1>6, <1>7, <1>11 DEF Reply, Refuse, Ends
<1>12. ASSUME NEW c \in Calls, Break(c)
       PROVE  LockIsPassedOn'
  BY <1>1, <1>3, <1>6, <1>12, AskKeeps DEF Break, Ends, At, Attempts
<1>13. ASSUME NEW c \in Calls, RemoteCancel(c)
       PROVE  LockIsPassedOn'
  BY <1>1, <1>6, <1>7, <1>13 DEF RemoteCancel, Ends
<1>14. ASSUME NEW c \in Calls, LockRespawns(c)
       PROVE  LockIsPassedOn'
  BY <1>1, <1>4, <1>14, HoldKeeps DEF LockRespawns
<1>15. ASSUME NEW c \in Calls, LockReuses(c)
       PROVE  LockIsPassedOn'
  BY <1>2, <1>3, <1>15, ReleaseKeeps DEF LockReuses, Attempts
<1>16. ASSUME NEW c \in Calls, LockAsserts(c)
       PROVE  LockIsPassedOn'
  BY <1>1, <1>3, <1>16, ReleaseKeeps DEF LockAsserts, EndsUnlocked, Ends
<1>17. ASSUME NEW c \in Calls, TearDown(c)
       PROVE  LockIsPassedOn'
  BY <1>1, <1>4, <1>17, HoldKeeps DEF TearDown, At
<1>18. ASSUME NEW c \in Calls, SpawnSucceeds(c)
       PROVE  LockIsPassedOn'
  <2>1. CASE Holds(c)
    BY <1>2, <1>3, <1>18, <2>1, ReleaseKeeps DEF SpawnSucceeds, Attempts
  <2>2. CASE ~Holds(c)
    BY <1>1, <1>18, <2>2, HoldKeeps DEF SpawnSucceeds, Ends, At
  <2> QED
    BY <2>1, <2>2
<1>19. ASSUME NEW c \in Calls, SpawnFails(c)
       PROVE  LockIsPassedOn'
  <2>1. CASE Holds(c)
    BY <1>1, <1>3, <1>19, <2>1, ReleaseKeeps DEF SpawnFails, EndsUnlocked, Ends
  <2>2. CASE ~Holds(c)
    BY <1>1, <1>19, <2>2, HoldKeeps DEF SpawnFails, EndsUnlocked, Ends, At
  <2> QED
    BY <2>1, <2>2
<1>20. ASSUME NEW c \in Calls, DeadlineInTask(c)
       PROVE  LockIsPassedOn'
  BY <1>1, <1>20, AbandonKeeps DEF DeadlineInTask, Ends
<1>21. ASSUME NEW c \in Calls, DeadlineOfCaller(c)
       PROVE  LockIsPassedOn'
  BY <1>21, StillKeeps DEF DeadlineOfCaller
<1>22. ASSUME Crash \/ StopBegins \/ StopEnds \/ UNCHANGED vars
       PROVE  LockIsPassedOn'
  BY <1>22, StillKeeps DEF Crash, StopBegins, StopEnds, vars
<1> QED
  BY <1>8, <1>9, <1>10, <1>11, <1>12, <1>13, <1>14, <1>15, <1>16, <1>17, <1>18, <1>19,
     <1>20, <1>21, <1>22
  DEF Next, AttemptEnds, Supervise, Deadline

\* _respawn_lock: the lock is released by every way out of the respawn, and every
\* caller that waits for it is in line or has it.
THEOREM LockIsPassedOnAlways == Spec => []LockIsPassedOn
  BY InvAlways, LockInit, LockNext, PTL DEF Spec

=============================================================================
