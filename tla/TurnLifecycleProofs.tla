------------------------- MODULE TurnLifecycleProofs -------------------------
(***************************************************************************)
(* The safety properties of TurnLifecycle, for any number of turns and     *)
(* messages of a session.                                                  *)
(***************************************************************************)
EXTENDS TurnLifecycle, TLAPS

\* How the task of a turn, its record, its scope and its watch fit together.
RecordFits(t) ==
  /\ status[t] = "none" <=> at[t] = "none"
  /\ status[t] \in Terminal => at[t] \in {"cleanup", "done", "broken"}
  /\ at[t] = "cleanup" /\ status[t] \notin Terminal => t \in asked
  /\ at[t] \in {"stopping", "aborting"} => t \in asked
  /\ at[t] = "done" => status[t] \in Terminal

ScopeFits(t) ==
  /\ scope[t] = "cancelled" => t \in asked
  /\ at[t] = "entering" => scope[t] # "none" /\ (t \in asked => scope[t] = "cancelled")
  /\ at[t] = "draining" => t \in asked
  /\ at[t] \in {"finishing", "done"} => scope[t] = "none" /\ active # t

WatchFits(t) ==
  /\ watch[t] # "off" =>
       at[t] \in {"entering", "driving", "reporting", "interrupting", "draining"}
  /\ watch[t] = "expired" => t \in asked

LockFits(t) == at[t] \in {"none", "starting", "done"} => holder # t

TurnInv == \A t \in Turns : RecordFits(t) /\ ScopeFits(t) /\ WatchFits(t) /\ LockFits(t)

Inv == TypeOK /\ OneTurnAtATime /\ TurnInv

------------------------------------------------------------------------------
(* Each step keeps the invariant *)

\* A turn is started.
LEMMA startStep ==
  ASSUME Inv, NEW t \in Turns, start(t)
  PROVE  Inv'
<1> USE Distinct DEF Inv, Terminal
<1>1. TypeOK'
  BY DEF start, Goes, SetStatus, TypeOK, Statuses, Places
<1>2. OneTurnAtATime'
  BY DEF start, Goes, SetStatus, TypeOK, OneTurnAtATime, Works, Places, TurnInv,
      LockFits
<1>3. TurnInv'
  <2> SUFFICES ASSUME NEW u \in Turns
               PROVE  (RecordFits(u) /\ ScopeFits(u) /\ WatchFits(u) /\ LockFits(u))'
    BY DEF TurnInv
  <2>1. RecordFits(u) /\ ScopeFits(u) /\ WatchFits(u) /\ LockFits(u)
    BY DEF TurnInv
  <2>2. RecordFits(u)'
    BY <2>1 DEF start, Goes, SetStatus, TypeOK, RecordFits, ScopeFits, WatchFits
  <2>3. ScopeFits(u)'
    BY <2>1 DEF start, Goes, SetStatus, TypeOK, RecordFits, ScopeFits, WatchFits
  <2>4. WatchFits(u)'
    BY <2>1 DEF start, Goes, SetStatus, TypeOK, RecordFits, WatchFits
  <2>5. LockFits(u)'
    BY <2>1
    DEF start, Goes, SetStatus, TypeOK, RecordFits, LockFits, OneTurnAtATime, Works,
        Places
  <2> QED
    BY <2>2, <2>3, <2>4, <2>5
<1> QED
  BY <1>1, <1>2, <1>3

\* A turn is cancelled.
LEMMA cancelStep ==
  ASSUME Inv, NEW t \in Turns, cancel(t)
  PROVE  Inv'
<1> USE Distinct DEF Inv, Terminal
<1>1. TypeOK'
  BY DEF cancel, Goes, SetStatus, TypeOK, Statuses, Places
<1>2. OneTurnAtATime'
  BY DEF cancel, Goes, SetStatus, TypeOK, OneTurnAtATime, Works, Places, TurnInv,
      LockFits
<1>3. TurnInv'
  <2> SUFFICES ASSUME NEW u \in Turns
               PROVE  (RecordFits(u) /\ ScopeFits(u) /\ WatchFits(u) /\ LockFits(u))'
    BY DEF TurnInv
  <2>1. RecordFits(u) /\ ScopeFits(u) /\ WatchFits(u) /\ LockFits(u)
    BY DEF TurnInv
  <2>2. RecordFits(u)'
    BY <2>1 DEF cancel, Goes, SetStatus, TypeOK, RecordFits, ScopeFits, WatchFits
  <2>3. ScopeFits(u)'
    BY <2>1 DEF cancel, Goes, SetStatus, TypeOK, RecordFits, ScopeFits, WatchFits
  <2>4. WatchFits(u)'
    BY <2>1 DEF cancel, Goes, SetStatus, TypeOK, RecordFits, WatchFits
  <2>5. LockFits(u)'
    BY <2>1
    DEF cancel, Goes, SetStatus, TypeOK, RecordFits, LockFits, OneTurnAtATime, Works,
        Places
  <2> QED
    BY <2>2, <2>3, <2>4, <2>5
<1> QED
  BY <1>1, <1>2, <1>3

\* A turn tries the lock.
LEMMA acquire_turnStep ==
  ASSUME Inv, NEW t \in Turns, acquire_turn(t)
  PROVE  Inv'
<1> USE Distinct DEF Inv, Terminal
<1>1. TypeOK'
  BY DEF acquire_turn, Goes, Excepts, TypeOK, Statuses, Places
<1>2. OneTurnAtATime'
  <2>1. ASSUME NEW u \in Turns, Works(u)'
        PROVE  holder' = u
    <3>1. CASE u = t
      BY <2>1, <3>1 DEF acquire_turn, Goes, Excepts, Works, Places, TypeOK
    <3>2. CASE u # t
      <4>1. at'[u] = at[u]
        BY <3>2 DEF acquire_turn, Goes, Excepts, TypeOK
      <4>2. holder = u
        BY <2>1, <4>1 DEF OneTurnAtATime, Works
      <4> QED
        BY <4>2 DEF acquire_turn
    <3> QED
      BY <3>1, <3>2
  <2>2. ASSUME NEW s \in Sends, send'[s] \in {"running", "draining"}
        PROVE  holder' = s
    BY <2>2 DEF acquire_turn, Goes, Excepts, OneTurnAtATime
  <2> QED
    BY <2>1, <2>2 DEF OneTurnAtATime
<1>3. TurnInv'
  <2> SUFFICES ASSUME NEW u \in Turns
               PROVE  (RecordFits(u) /\ ScopeFits(u) /\ WatchFits(u) /\ LockFits(u))'
    BY DEF TurnInv
  <2>1. RecordFits(u) /\ ScopeFits(u) /\ WatchFits(u) /\ LockFits(u)
    BY DEF TurnInv
  <2>2. RecordFits(u)'
    BY <2>1 DEF acquire_turn, Goes, Excepts, TypeOK, RecordFits, ScopeFits, WatchFits
  <2>3. ScopeFits(u)'
    BY <2>1 DEF acquire_turn, Goes, Excepts, TypeOK, RecordFits, ScopeFits, WatchFits
  <2>4. WatchFits(u)'
    BY <2>1 DEF acquire_turn, Goes, Excepts, TypeOK, RecordFits, WatchFits
  <2>5. LockFits(u)'
    BY <2>1
    DEF acquire_turn, Goes, Excepts, TypeOK, RecordFits, LockFits, OneTurnAtATime, Works,
        Places
  <2> QED
    BY <2>2, <2>3, <2>4, <2>5
<1> QED
  BY <1>1, <1>2, <1>3

\* A turn is marked as running.
LEMMA SetRunningStep ==
  ASSUME Inv, NEW t \in Turns, SetRunning(t)
  PROVE  Inv'
<1> USE Distinct DEF Inv, Terminal
<1>1. TypeOK'
  BY DEF SetRunning, Goes, SetStatus, TypeOK, Statuses, Places
<1>2. OneTurnAtATime'
  BY DEF SetRunning, Goes, SetStatus, TypeOK, OneTurnAtATime, Works, Places, TurnInv,
      LockFits
<1>3. TurnInv'
  <2> SUFFICES ASSUME NEW u \in Turns
               PROVE  (RecordFits(u) /\ ScopeFits(u) /\ WatchFits(u) /\ LockFits(u))'
    BY DEF TurnInv
  <2>1. RecordFits(u) /\ ScopeFits(u) /\ WatchFits(u) /\ LockFits(u)
    BY DEF TurnInv
  <2>2. RecordFits(u)'
    BY <2>1 DEF SetRunning, Goes, SetStatus, TypeOK, RecordFits, ScopeFits, WatchFits
  <2>3. ScopeFits(u)'
    BY <2>1 DEF SetRunning, Goes, SetStatus, TypeOK, RecordFits, ScopeFits, WatchFits
  <2>4. WatchFits(u)'
    BY <2>1 DEF SetRunning, Goes, SetStatus, TypeOK, RecordFits, WatchFits
  <2>5. LockFits(u)'
    BY <2>1
    DEF SetRunning, Goes, SetStatus, TypeOK, RecordFits, LockFits, OneTurnAtATime, Works,
        Places
  <2> QED
    BY <2>2, <2>3, <2>4, <2>5
<1> QED
  BY <1>1, <1>2, <1>3

\* A scope is registered.
LEMMA RegisterScopeStep ==
  ASSUME Inv, NEW t \in Turns, RegisterScope(t)
  PROVE  Inv'
<1> USE Distinct DEF Inv, Terminal
<1>1. TypeOK'
  BY DEF RegisterScope, Goes, TypeOK, Statuses, Places
<1>2. OneTurnAtATime'
  BY DEF RegisterScope, Goes, TypeOK, OneTurnAtATime, Works, Places, TurnInv, LockFits
<1>3. TurnInv'
  <2> SUFFICES ASSUME NEW u \in Turns
               PROVE  (RecordFits(u) /\ ScopeFits(u) /\ WatchFits(u) /\ LockFits(u))'
    BY DEF TurnInv
  <2>1. RecordFits(u) /\ ScopeFits(u) /\ WatchFits(u) /\ LockFits(u)
    BY DEF TurnInv
  <2>2. RecordFits(u)'
    BY <2>1 DEF RegisterScope, Goes, TypeOK, RecordFits, ScopeFits, WatchFits
  <2>3. ScopeFits(u)'
    BY <2>1 DEF RegisterScope, Goes, TypeOK, RecordFits, ScopeFits, WatchFits
  <2>4. WatchFits(u)'
    BY <2>1 DEF RegisterScope, Goes, TypeOK, RecordFits, WatchFits
  <2>5. LockFits(u)'
    BY <2>1
    DEF RegisterScope, Goes, TypeOK, RecordFits, LockFits, OneTurnAtATime, Works, Places
  <2> QED
    BY <2>2, <2>3, <2>4, <2>5
<1> QED
  BY <1>1, <1>2, <1>3

\* A scope is entered.
LEMMA EnterScopeStep ==
  ASSUME Inv, NEW t \in Turns, EnterScope(t)
  PROVE  Inv'
<1> USE Distinct DEF Inv, Terminal
<1>1. TypeOK'
  BY DEF EnterScope, Goes, TypeOK, Statuses, Places
<1>2. OneTurnAtATime'
  BY DEF EnterScope, Goes, TypeOK, OneTurnAtATime, Works, Places, TurnInv, LockFits
<1>3. TurnInv'
  <2> SUFFICES ASSUME NEW u \in Turns
               PROVE  (RecordFits(u) /\ ScopeFits(u) /\ WatchFits(u) /\ LockFits(u))'
    BY DEF TurnInv
  <2>1. RecordFits(u) /\ ScopeFits(u) /\ WatchFits(u) /\ LockFits(u)
    BY DEF TurnInv
  <2>2. RecordFits(u)'
    BY <2>1 DEF EnterScope, Goes, TypeOK, RecordFits, ScopeFits, WatchFits
  <2>3. ScopeFits(u)'
    BY <2>1 DEF EnterScope, Goes, TypeOK, RecordFits, ScopeFits, WatchFits
  <2>4. WatchFits(u)'
    BY <2>1 DEF EnterScope, Goes, TypeOK, RecordFits, WatchFits
  <2>5. LockFits(u)'
    BY <2>1
    DEF EnterScope, Goes, TypeOK, RecordFits, LockFits, OneTurnAtATime, Works, Places
  <2> QED
    BY <2>2, <2>3, <2>4, <2>5
<1> QED
  BY <1>1, <1>2, <1>3

\* A tool is called.
LEMMA ToolDispatchedStep ==
  ASSUME Inv, NEW t \in Turns, ToolDispatched(t)
  PROVE  Inv'
<1> USE Distinct DEF Inv, Terminal
<1>1. TypeOK'
  BY DEF ToolDispatched, TypeOK, Statuses, Places
<1>2. OneTurnAtATime'
  BY DEF ToolDispatched, TypeOK, OneTurnAtATime, Works, Places, TurnInv, LockFits
<1>3. TurnInv'
  <2> SUFFICES ASSUME NEW u \in Turns
               PROVE  (RecordFits(u) /\ ScopeFits(u) /\ WatchFits(u) /\ LockFits(u))'
    BY DEF TurnInv
  <2>1. RecordFits(u) /\ ScopeFits(u) /\ WatchFits(u) /\ LockFits(u)
    BY DEF TurnInv
  <2>2. RecordFits(u)'
    BY <2>1 DEF ToolDispatched, TypeOK, RecordFits, ScopeFits, WatchFits
  <2>3. ScopeFits(u)'
    BY <2>1 DEF ToolDispatched, TypeOK, RecordFits, ScopeFits, WatchFits
  <2>4. WatchFits(u)'
    BY <2>1 DEF ToolDispatched, TypeOK, RecordFits, WatchFits
  <2>5. LockFits(u)'
    BY <2>1
    DEF ToolDispatched, TypeOK, RecordFits, LockFits, OneTurnAtATime, Works, Places
  <2> QED
    BY <2>2, <2>3, <2>4, <2>5
<1> QED
  BY <1>1, <1>2, <1>3

\* A tool returns.
LEMMA ToolReturnedStep ==
  ASSUME Inv, NEW t \in Turns, ToolReturned(t)
  PROVE  Inv'
<1> USE Distinct DEF Inv, Terminal
<1>1. TypeOK'
  BY DEF ToolReturned, TypeOK, Statuses, Places
<1>2. OneTurnAtATime'
  BY DEF ToolReturned, TypeOK, OneTurnAtATime, Works, Places, TurnInv, LockFits
<1>3. TurnInv'
  <2> SUFFICES ASSUME NEW u \in Turns
               PROVE  (RecordFits(u) /\ ScopeFits(u) /\ WatchFits(u) /\ LockFits(u))'
    BY DEF TurnInv
  <2>1. RecordFits(u) /\ ScopeFits(u) /\ WatchFits(u) /\ LockFits(u)
    BY DEF TurnInv
  <2>2. RecordFits(u)'
    BY <2>1 DEF ToolReturned, TypeOK, RecordFits, ScopeFits, WatchFits
  <2>3. ScopeFits(u)'
    BY <2>1 DEF ToolReturned, TypeOK, RecordFits, ScopeFits, WatchFits
  <2>4. WatchFits(u)'
    BY <2>1 DEF ToolReturned, TypeOK, RecordFits, WatchFits
  <2>5. LockFits(u)'
    BY <2>1
    DEF ToolReturned, TypeOK, RecordFits, LockFits, OneTurnAtATime, Works, Places
  <2> QED
    BY <2>2, <2>3, <2>4, <2>5
<1> QED
  BY <1>1, <1>2, <1>3

\* A turn reports its completion.
LEMMA TurnCompletedStep ==
  ASSUME Inv, NEW t \in Turns, TurnCompleted(t)
  PROVE  Inv'
<1> USE Distinct DEF Inv, Terminal
<1>1. TypeOK'
  BY DEF TurnCompleted, Goes, TypeOK, Statuses, Places
<1>2. OneTurnAtATime'
  BY DEF TurnCompleted, Goes, TypeOK, OneTurnAtATime, Works, Places, TurnInv, LockFits
<1>3. TurnInv'
  <2> SUFFICES ASSUME NEW u \in Turns
               PROVE  (RecordFits(u) /\ ScopeFits(u) /\ WatchFits(u) /\ LockFits(u))'
    BY DEF TurnInv
  <2>1. RecordFits(u) /\ ScopeFits(u) /\ WatchFits(u) /\ LockFits(u)
    BY DEF TurnInv
  <2>2. RecordFits(u)'
    BY <2>1 DEF TurnCompleted, Goes, TypeOK, RecordFits, ScopeFits, WatchFits
  <2>3. ScopeFits(u)'
    BY <2>1 DEF TurnCompleted, Goes, TypeOK, RecordFits, ScopeFits, WatchFits
  <2>4. WatchFits(u)'
    BY <2>1 DEF TurnCompleted, Goes, TypeOK, RecordFits, WatchFits
  <2>5. LockFits(u)'
    BY <2>1
    DEF TurnCompleted, Goes, TypeOK, RecordFits, LockFits, OneTurnAtATime, Works, Places
  <2> QED
    BY <2>2, <2>3, <2>4, <2>5
<1> QED
  BY <1>1, <1>2, <1>3

\* A turn reports its interruption.
LEMMA TurnInterruptedStep ==
  ASSUME Inv, NEW t \in Turns, TurnInterrupted(t)
  PROVE  Inv'
<1> USE Distinct DEF Inv, Terminal
<1>1. TypeOK'
  BY DEF TurnInterrupted, Goes, TypeOK, Statuses, Places
<1>2. OneTurnAtATime'
  BY DEF TurnInterrupted, Goes, TypeOK, OneTurnAtATime, Works, Places, TurnInv, LockFits
<1>3. TurnInv'
  <2> SUFFICES ASSUME NEW u \in Turns
               PROVE  (RecordFits(u) /\ ScopeFits(u) /\ WatchFits(u) /\ LockFits(u))'
    BY DEF TurnInv
  <2>1. RecordFits(u) /\ ScopeFits(u) /\ WatchFits(u) /\ LockFits(u)
    BY DEF TurnInv
  <2>2. RecordFits(u)'
    BY <2>1 DEF TurnInterrupted, Goes, TypeOK, RecordFits, ScopeFits, WatchFits
  <2>3. ScopeFits(u)'
    BY <2>1 DEF TurnInterrupted, Goes, TypeOK, RecordFits, ScopeFits, WatchFits
  <2>4. WatchFits(u)'
    BY <2>1 DEF TurnInterrupted, Goes, TypeOK, RecordFits, WatchFits
  <2>5. LockFits(u)'
    BY <2>1
    DEF TurnInterrupted, Goes, TypeOK, RecordFits, LockFits, OneTurnAtATime, Works,
        Places
  <2> QED
    BY <2>2, <2>3, <2>4, <2>5
<1> QED
  BY <1>1, <1>2, <1>3

\* An outcome is recorded.
LEMMA RecordOutcomeStep ==
  ASSUME Inv, NEW t \in Turns, RecordOutcome(t)
  PROVE  Inv'
<1> USE Distinct DEF Inv, Terminal
<1>1. TypeOK'
  BY DEF RecordOutcome, Goes, SetStatus, TypeOK, Statuses, Places
<1>2. OneTurnAtATime'
  BY DEF RecordOutcome, Goes, SetStatus, TypeOK, OneTurnAtATime, Works, Places, TurnInv,
      LockFits
<1>3. TurnInv'
  <2> SUFFICES ASSUME NEW u \in Turns
               PROVE  (RecordFits(u) /\ ScopeFits(u) /\ WatchFits(u) /\ LockFits(u))'
    BY DEF TurnInv
  <2>1. RecordFits(u) /\ ScopeFits(u) /\ WatchFits(u) /\ LockFits(u)
    BY DEF TurnInv
  <2>2. RecordFits(u)'
    BY <2>1 DEF RecordOutcome, Goes, SetStatus, TypeOK, RecordFits, ScopeFits, WatchFits
  <2>3. ScopeFits(u)'
    BY <2>1 DEF RecordOutcome, Goes, SetStatus, TypeOK, RecordFits, ScopeFits, WatchFits
  <2>4. WatchFits(u)'
    BY <2>1 DEF RecordOutcome, Goes, SetStatus, TypeOK, RecordFits, WatchFits
  <2>5. LockFits(u)'
    BY <2>1
    DEF RecordOutcome, Goes, SetStatus, TypeOK, RecordFits, LockFits, OneTurnAtATime,
        Works, Places
  <2> QED
    BY <2>2, <2>3, <2>4, <2>5
<1> QED
  BY <1>1, <1>2, <1>3

\* The loop raises.
LEMMA RaiseStep ==
  ASSUME Inv, NEW t \in Turns, Raise(t)
  PROVE  Inv'
<1> USE Distinct DEF Inv, Terminal
<1>1. TypeOK'
  BY DEF Raise, Goes, TypeOK, Statuses, Places
<1>2. OneTurnAtATime'
  BY DEF Raise, Goes, TypeOK, OneTurnAtATime, Works, Places, TurnInv, LockFits
<1>3. TurnInv'
  <2> SUFFICES ASSUME NEW u \in Turns
               PROVE  (RecordFits(u) /\ ScopeFits(u) /\ WatchFits(u) /\ LockFits(u))'
    BY DEF TurnInv
  <2>1. RecordFits(u) /\ ScopeFits(u) /\ WatchFits(u) /\ LockFits(u)
    BY DEF TurnInv
  <2>2. RecordFits(u)'
    BY <2>1 DEF Raise, Goes, TypeOK, RecordFits, ScopeFits, WatchFits
  <2>3. ScopeFits(u)'
    BY <2>1 DEF Raise, Goes, TypeOK, RecordFits, ScopeFits, WatchFits
  <2>4. WatchFits(u)'
    BY <2>1 DEF Raise, Goes, TypeOK, RecordFits, WatchFits
  <2>5. LockFits(u)'
    BY <2>1 DEF Raise, Goes, TypeOK, RecordFits, LockFits, OneTurnAtATime, Works, Places
  <2> QED
    BY <2>2, <2>3, <2>4, <2>5
<1> QED
  BY <1>1, <1>2, <1>3

\* A cancellation is delivered.
LEMMA CancelledStep ==
  ASSUME Inv, NEW t \in Turns, Cancelled(t)
  PROVE  Inv'
<1> USE Distinct DEF Inv, Terminal
<1>1. TypeOK'
  BY DEF Cancelled, Goes, TypeOK, Statuses, Places
<1>2. OneTurnAtATime'
  BY DEF Cancelled, Goes, TypeOK, OneTurnAtATime, Works, Places, TurnInv, LockFits
<1>3. TurnInv'
  <2> SUFFICES ASSUME NEW u \in Turns
               PROVE  (RecordFits(u) /\ ScopeFits(u) /\ WatchFits(u) /\ LockFits(u))'
    BY DEF TurnInv
  <2>1. RecordFits(u) /\ ScopeFits(u) /\ WatchFits(u) /\ LockFits(u)
    BY DEF TurnInv
  <2>2. RecordFits(u)'
    BY <2>1 DEF Cancelled, Goes, TypeOK, RecordFits, ScopeFits, WatchFits
  <2>3. ScopeFits(u)'
    BY <2>1 DEF Cancelled, Goes, TypeOK, RecordFits, ScopeFits, WatchFits
  <2>4. WatchFits(u)'
    BY <2>1 DEF Cancelled, Goes, TypeOK, RecordFits, WatchFits
  <2>5. LockFits(u)'
    BY <2>1
    DEF Cancelled, Goes, TypeOK, RecordFits, LockFits, OneTurnAtATime, Works, Places
  <2> QED
    BY <2>2, <2>3, <2>4, <2>5
<1> QED
  BY <1>1, <1>2, <1>3

\* A watch ends.
LEMMA WatchReturnsStep ==
  ASSUME Inv, NEW t \in Turns, WatchReturns(t)
  PROVE  Inv'
<1> USE Distinct DEF Inv, Terminal
<1>1. TypeOK'
  BY DEF WatchReturns, TypeOK, Statuses, Places
<1>2. OneTurnAtATime'
  BY DEF WatchReturns, TypeOK, OneTurnAtATime, Works, Places, TurnInv, LockFits
<1>3. TurnInv'
  <2> SUFFICES ASSUME NEW u \in Turns
               PROVE  (RecordFits(u) /\ ScopeFits(u) /\ WatchFits(u) /\ LockFits(u))'
    BY DEF TurnInv
  <2>1. RecordFits(u) /\ ScopeFits(u) /\ WatchFits(u) /\ LockFits(u)
    BY DEF TurnInv
  <2>2. RecordFits(u)'
    BY <2>1 DEF WatchReturns, TypeOK, RecordFits, ScopeFits, WatchFits
  <2>3. ScopeFits(u)'
    BY <2>1 DEF WatchReturns, TypeOK, RecordFits, ScopeFits, WatchFits
  <2>4. WatchFits(u)'
    BY <2>1 DEF WatchReturns, TypeOK, RecordFits, WatchFits
  <2>5. LockFits(u)'
    BY <2>1
    DEF WatchReturns, TypeOK, RecordFits, LockFits, OneTurnAtATime, Works, Places
  <2> QED
    BY <2>2, <2>3, <2>4, <2>5
<1> QED
  BY <1>1, <1>2, <1>3

\* A heartbeat is missed.
LEMMA HeartbeatExpiresStep ==
  ASSUME Inv, NEW t \in Turns, HeartbeatExpires(t)
  PROVE  Inv'
<1> USE Distinct DEF Inv, Terminal
<1>1. TypeOK'
  BY DEF HeartbeatExpires, Goes, SetStatus, TypeOK, Statuses, Places
<1>2. OneTurnAtATime'
  BY DEF HeartbeatExpires, Goes, SetStatus, TypeOK, OneTurnAtATime, Works, Places,
      TurnInv, LockFits
<1>3. TurnInv'
  <2> SUFFICES ASSUME NEW u \in Turns
               PROVE  (RecordFits(u) /\ ScopeFits(u) /\ WatchFits(u) /\ LockFits(u))'
    BY DEF TurnInv
  <2>1. RecordFits(u) /\ ScopeFits(u) /\ WatchFits(u) /\ LockFits(u)
    BY DEF TurnInv
  <2>2. RecordFits(u)'
    BY <2>1
    DEF HeartbeatExpires, Goes, SetStatus, TypeOK, RecordFits, ScopeFits, WatchFits
  <2>3. ScopeFits(u)'
    BY <2>1
    DEF HeartbeatExpires, Goes, SetStatus, TypeOK, RecordFits, ScopeFits, WatchFits
  <2>4. WatchFits(u)'
    BY <2>1 DEF HeartbeatExpires, Goes, SetStatus, TypeOK, RecordFits, WatchFits
  <2>5. LockFits(u)'
    BY <2>1
    DEF HeartbeatExpires, Goes, SetStatus, TypeOK, RecordFits, LockFits, OneTurnAtATime,
        Works, Places
  <2> QED
    BY <2>2, <2>3, <2>4, <2>5
<1> QED
  BY <1>1, <1>2, <1>3

\* A watch cancels its turn.
LEMMA WatchCancelsStep ==
  ASSUME Inv, NEW t \in Turns, WatchCancels(t)
  PROVE  Inv'
<1> USE Distinct DEF Inv, Terminal
<1>1. TypeOK'
  BY DEF WatchCancels, TypeOK, Statuses, Places
<1>2. OneTurnAtATime'
  BY DEF WatchCancels, TypeOK, OneTurnAtATime, Works, Places, TurnInv, LockFits
<1>3. TurnInv'
  <2> SUFFICES ASSUME NEW u \in Turns
               PROVE  (RecordFits(u) /\ ScopeFits(u) /\ WatchFits(u) /\ LockFits(u))'
    BY DEF TurnInv
  <2>1. RecordFits(u) /\ ScopeFits(u) /\ WatchFits(u) /\ LockFits(u)
    BY DEF TurnInv
  <2>2. RecordFits(u)'
    BY <2>1 DEF WatchCancels, TypeOK, RecordFits, ScopeFits, WatchFits
  <2>3. ScopeFits(u)'
    BY <2>1 DEF WatchCancels, TypeOK, RecordFits, ScopeFits, WatchFits
  <2>4. WatchFits(u)'
    BY <2>1 DEF WatchCancels, TypeOK, RecordFits, WatchFits
  <2>5. LockFits(u)'
    BY <2>1
    DEF WatchCancels, TypeOK, RecordFits, LockFits, OneTurnAtATime, Works, Places
  <2> QED
    BY <2>2, <2>3, <2>4, <2>5
<1> QED
  BY <1>1, <1>2, <1>3

\* A task group is left.
LEMMA DrainedStep ==
  ASSUME Inv, NEW t \in Turns, Drained(t)
  PROVE  Inv'
<1> USE Distinct DEF Inv, Terminal
<1>1. TypeOK'
  BY DEF Drained, Goes, TypeOK, Statuses, Places
<1>2. OneTurnAtATime'
  BY DEF Drained, Goes, TypeOK, OneTurnAtATime, Works, Places, TurnInv, LockFits
<1>3. TurnInv'
  <2> SUFFICES ASSUME NEW u \in Turns
               PROVE  (RecordFits(u) /\ ScopeFits(u) /\ WatchFits(u) /\ LockFits(u))'
    BY DEF TurnInv
  <2>1. RecordFits(u) /\ ScopeFits(u) /\ WatchFits(u) /\ LockFits(u)
    BY DEF TurnInv
  <2>2. RecordFits(u)'
    BY <2>1 DEF Drained, Goes, TypeOK, RecordFits, ScopeFits, WatchFits
  <2>3. ScopeFits(u)'
    BY <2>1 DEF Drained, Goes, TypeOK, RecordFits, ScopeFits, WatchFits
  <2>4. WatchFits(u)'
    BY <2>1 DEF Drained, Goes, TypeOK, RecordFits, WatchFits
  <2>5. LockFits(u)'
    BY <2>1
    DEF Drained, Goes, TypeOK, RecordFits, LockFits, OneTurnAtATime, Works, Places
  <2> QED
    BY <2>2, <2>3, <2>4, <2>5
<1> QED
  BY <1>1, <1>2, <1>3

\* A task group is left by an exception.
LEMMA UnwoundStep ==
  ASSUME Inv, NEW t \in Turns, Unwound(t)
  PROVE  Inv'
<1> USE Distinct DEF Inv, Terminal
<1>1. TypeOK'
  BY DEF Unwound, Goes, Excepts, TypeOK, Statuses, Places
<1>2. OneTurnAtATime'
  BY DEF Unwound, Goes, Excepts, TypeOK, OneTurnAtATime, Works, Places, TurnInv,
      LockFits
<1>3. TurnInv'
  <2> SUFFICES ASSUME NEW u \in Turns
               PROVE  (RecordFits(u) /\ ScopeFits(u) /\ WatchFits(u) /\ LockFits(u))'
    BY DEF TurnInv
  <2>1. RecordFits(u) /\ ScopeFits(u) /\ WatchFits(u) /\ LockFits(u)
    BY DEF TurnInv
  <2>2. RecordFits(u)'
    BY <2>1 DEF Unwound, Goes, Excepts, TypeOK, RecordFits, ScopeFits, WatchFits
  <2>3. ScopeFits(u)'
    BY <2>1 DEF Unwound, Goes, Excepts, TypeOK, RecordFits, ScopeFits, WatchFits
  <2>4. WatchFits(u)'
    BY <2>1 DEF Unwound, Goes, Excepts, TypeOK, RecordFits, WatchFits
  <2>5. LockFits(u)'
    BY <2>1
    DEF Unwound, Goes, Excepts, TypeOK, RecordFits, LockFits, OneTurnAtATime, Works,
        Places
  <2> QED
    BY <2>2, <2>3, <2>4, <2>5
<1> QED
  BY <1>1, <1>2, <1>3

\* A failure is recorded.
LEMMA RecordFailureStep ==
  ASSUME Inv, NEW t \in Turns, RecordFailure(t)
  PROVE  Inv'
<1> USE Distinct DEF Inv, Terminal
<1>1. TypeOK'
  BY DEF RecordFailure, Goes, SetStatus, TypeOK, Statuses, Places
<1>2. OneTurnAtATime'
  BY DEF RecordFailure, Goes, SetStatus, TypeOK, OneTurnAtATime, Works, Places, TurnInv,
      LockFits
<1>3. TurnInv'
  <2> SUFFICES ASSUME NEW u \in Turns
               PROVE  (RecordFits(u) /\ ScopeFits(u) /\ WatchFits(u) /\ LockFits(u))'
    BY DEF TurnInv
  <2>1. RecordFits(u) /\ ScopeFits(u) /\ WatchFits(u) /\ LockFits(u)
    BY DEF TurnInv
  <2>2. RecordFits(u)'
    BY <2>1 DEF RecordFailure, Goes, SetStatus, TypeOK, RecordFits, ScopeFits, WatchFits
  <2>3. ScopeFits(u)'
    BY <2>1 DEF RecordFailure, Goes, SetStatus, TypeOK, RecordFits, ScopeFits, WatchFits
  <2>4. WatchFits(u)'
    BY <2>1 DEF RecordFailure, Goes, SetStatus, TypeOK, RecordFits, WatchFits
  <2>5. LockFits(u)'
    BY <2>1
    DEF RecordFailure, Goes, SetStatus, TypeOK, RecordFits, LockFits, OneTurnAtATime,
        Works, Places
  <2> QED
    BY <2>2, <2>3, <2>4, <2>5
<1> QED
  BY <1>1, <1>2, <1>3

\* A turn cleans up.
LEMMA CleanupStep ==
  ASSUME Inv, NEW t \in Turns, Cleanup(t)
  PROVE  Inv'
<1> USE Distinct DEF Inv, Terminal
<1>1. TypeOK'
  BY DEF Cleanup, Goes, Leaves, Failing, Deactivates, TypeOK, Statuses, Places
<1>2. OneTurnAtATime'
  <2>1. ASSUME NEW u \in Turns, Works(u)'
        PROVE  holder' = u
    <3>1. u # t => at'[u] = at[u]
      BY DEF Cleanup, Leaves, Failing, Goes, TypeOK
    <3>2. CASE u # t
      <4>1. holder = u
        BY <2>1, <3>1, <3>2 DEF OneTurnAtATime, Works
      <4> QED
        BY <3>2, <4>1 DEF Cleanup, Leaves, Failing
    <3>3. CASE u = t
      BY <2>1, <3>3 DEF Cleanup, Leaves, Failing, Goes, Works, TypeOK
    <3> QED
      BY <3>2, <3>3
  <2>2. ASSUME NEW s \in Sends, send'[s] \in {"running", "draining"}
        PROVE  holder' = s
    BY <2>2 DEF Cleanup, Goes, Leaves, Failing, Deactivates, OneTurnAtATime
  <2> QED
    BY <2>1, <2>2 DEF OneTurnAtATime
<1>3. TurnInv'
  <2> SUFFICES ASSUME NEW u \in Turns
               PROVE  (RecordFits(u) /\ ScopeFits(u) /\ WatchFits(u) /\ LockFits(u))'
    BY DEF TurnInv
  <2>1. RecordFits(u) /\ ScopeFits(u) /\ WatchFits(u) /\ LockFits(u)
    BY DEF TurnInv
  <2>2. RecordFits(u)'
    BY <2>1
    DEF Cleanup, Goes, Leaves, Failing, Deactivates, TypeOK, RecordFits, ScopeFits,
        WatchFits
  <2>3. ScopeFits(u)'
    BY <2>1
    DEF Cleanup, Goes, Leaves, Failing, Deactivates, TypeOK, RecordFits, ScopeFits,
        WatchFits
  <2>4. WatchFits(u)'
    BY <2>1 DEF Cleanup, Goes, Leaves, Failing, Deactivates, TypeOK, RecordFits, WatchFits
  <2>5. LockFits(u)'
    BY <2>1
    DEF Cleanup, Goes, Leaves, Failing, Deactivates, TypeOK, RecordFits, LockFits,
        OneTurnAtATime, Works
  <2> QED
    BY <2>2, <2>3, <2>4, <2>5
<1> QED
  BY <1>1, <1>2, <1>3

\* A cancelled turn ends.
LEMMA FinishInterruptedStep ==
  ASSUME Inv, NEW t \in Turns, FinishInterrupted(t)
  PROVE  Inv'
<1> USE Distinct DEF Inv, Terminal
<1>1. TypeOK'
  BY DEF FinishInterrupted, Goes, SetStatus, Leaves, Failing, TypeOK, Statuses, Places
<1>2. OneTurnAtATime'
  BY DEF FinishInterrupted, Goes, SetStatus, Leaves, Failing, TypeOK, OneTurnAtATime, Works,
      Places, TurnInv, LockFits
<1>3. TurnInv'
  <2> SUFFICES ASSUME NEW u \in Turns
               PROVE  (RecordFits(u) /\ ScopeFits(u) /\ WatchFits(u) /\ LockFits(u))'
    BY DEF TurnInv
  <2>1. RecordFits(u) /\ ScopeFits(u) /\ WatchFits(u) /\ LockFits(u)
    BY DEF TurnInv
  <2>2. RecordFits(u)'
    BY <2>1
    DEF FinishInterrupted, Goes, SetStatus, Leaves, Failing, TypeOK, RecordFits, ScopeFits,
        WatchFits
  <2>3. ScopeFits(u)'
    BY <2>1
    DEF FinishInterrupted, Goes, SetStatus, Leaves, Failing, TypeOK, RecordFits, ScopeFits,
        WatchFits
  <2>4. WatchFits(u)'
    BY <2>1
    DEF FinishInterrupted, Goes, SetStatus, Leaves, Failing, TypeOK, RecordFits, WatchFits
  <2>5. LockFits(u)'
    BY <2>1
    DEF FinishInterrupted, Goes, SetStatus, Leaves, Failing, TypeOK, RecordFits, LockFits,
        OneTurnAtATime, Works, Places
  <2> QED
    BY <2>2, <2>3, <2>4, <2>5
<1> QED
  BY <1>1, <1>2, <1>3

\* An audit write raises.
LEMMA AuditRaisesStep ==
  ASSUME Inv, NEW t \in Turns, AuditRaises(t)
  PROVE  Inv'
<1> USE Distinct DEF Inv, Terminal
<1>1. TypeOK'
  BY DEF AuditRaises, Goes, TypeOK, Statuses, Places
<1>2. OneTurnAtATime'
  BY DEF AuditRaises, Goes, TypeOK, OneTurnAtATime, Works, Places, TurnInv,
      LockFits
<1>3. TurnInv'
  <2> SUFFICES ASSUME NEW u \in Turns
               PROVE  (RecordFits(u) /\ ScopeFits(u) /\ WatchFits(u) /\ LockFits(u))'
    BY DEF TurnInv
  <2>1. RecordFits(u) /\ ScopeFits(u) /\ WatchFits(u) /\ LockFits(u)
    BY DEF TurnInv
  <2>2. RecordFits(u)'
    BY <2>1 DEF AuditRaises, Goes, TypeOK, RecordFits, ScopeFits, WatchFits
  <2>3. ScopeFits(u)'
    BY <2>1 DEF AuditRaises, Goes, TypeOK, RecordFits, ScopeFits, WatchFits
  <2>4. WatchFits(u)'
    BY <2>1 DEF AuditRaises, Goes, TypeOK, RecordFits, WatchFits
  <2>5. LockFits(u)'
    BY <2>1
    DEF AuditRaises, Goes, TypeOK, RecordFits, LockFits, OneTurnAtATime,
        Works, Places
  <2> QED
    BY <2>2, <2>3, <2>4, <2>5
<1> QED
  BY <1>1, <1>2, <1>3

\* A message takes the lock.
LEMMA SendStartsStep ==
  ASSUME Inv, NEW s \in Sends, SendStarts(s)
  PROVE  Inv'
<1> USE Distinct DEF Inv, Terminal
<1>1. TypeOK'
  BY DEF SendStarts, TypeOK, Statuses, Places
<1>2. OneTurnAtATime'
  BY DEF SendStarts, TypeOK, OneTurnAtATime, Works, Places, TurnInv, LockFits
<1>3. TurnInv'
  BY DEF SendStarts, TypeOK, OneTurnAtATime, TurnInv, RecordFits, ScopeFits, WatchFits,
      LockFits
<1> QED
  BY <1>1, <1>2, <1>3

\* A message is queued.
LEMMA EnqueueStep ==
  ASSUME Inv, NEW s \in Sends, Enqueue(s)
  PROVE  Inv'
<1> USE Distinct DEF Inv, Terminal
<1>1. TypeOK'
  BY DEF Enqueue, TypeOK, Statuses, Places
<1>2. OneTurnAtATime'
  BY DEF Enqueue, TypeOK, OneTurnAtATime, Works, Places, TurnInv, LockFits
<1>3. TurnInv'
  BY DEF Enqueue, TypeOK, OneTurnAtATime, TurnInv, RecordFits, ScopeFits, WatchFits,
      LockFits
<1> QED
  BY <1>1, <1>2, <1>3

\* A message is refused.
LEMMA SendRefusedStep ==
  ASSUME Inv, NEW s \in Sends, SendRefused(s)
  PROVE  Inv'
<1> USE Distinct DEF Inv, Terminal
<1>1. TypeOK'
  BY DEF SendRefused, TypeOK, Statuses, Places
<1>2. OneTurnAtATime'
  BY DEF SendRefused, TypeOK, OneTurnAtATime, Works, Places, TurnInv, LockFits
<1>3. TurnInv'
  BY DEF SendRefused, TypeOK, OneTurnAtATime, TurnInv, RecordFits, ScopeFits, WatchFits,
      LockFits
<1> QED
  BY <1>1, <1>2, <1>3

\* A message was run.
LEMMA SendRanStep ==
  ASSUME Inv, NEW s \in Sends, SendRan(s)
  PROVE  Inv'
<1> USE Distinct DEF Inv, Terminal
<1>1. TypeOK'
  BY DEF SendRan, TypeOK, Statuses, Places
<1>2. OneTurnAtATime'
  BY DEF SendRan, TypeOK, OneTurnAtATime, Works, Places, TurnInv, LockFits
<1>3. TurnInv'
  BY DEF SendRan, TypeOK, OneTurnAtATime, TurnInv, RecordFits, ScopeFits, WatchFits,
      LockFits
<1> QED
  BY <1>1, <1>2, <1>3

\* A queued message is taken, or the lock given back.
LEMMA SendDrainsStep ==
  ASSUME Inv, NEW s \in Sends, SendDrains(s)
  PROVE  Inv'
<1> USE Distinct DEF Inv, Terminal
<1>1. TypeOK'
  <2>1. inputs # <<>> => Head(inputs) \in Sends /\ Tail(inputs) \in Seq(Sends)
    BY DEF TypeOK
  <2>2. /\ send' \in [Sends -> {"new", "queued", "running", "draining", "done"}]
        /\ inputs' \in Seq(Sends)
    BY <2>1 DEF SendDrains, TypeOK
  <2> QED
    BY <2>2 DEF SendDrains, TypeOK
<1>2. OneTurnAtATime'
  BY DEF SendDrains, TypeOK, OneTurnAtATime, Works, Places, TurnInv, LockFits
<1>3. TurnInv'
  BY DEF SendDrains, TypeOK, OneTurnAtATime, TurnInv, RecordFits, ScopeFits, WatchFits,
      LockFits
<1> QED
  BY <1>1, <1>2, <1>3

\* The flag is set.
LEMMA session_cancelStep ==
  ASSUME Inv, session_cancel
  PROVE  Inv'
<1> USE Distinct DEF Inv, Terminal
<1>1. TypeOK'
  BY DEF session_cancel, TypeOK, Statuses, Places
<1>2. OneTurnAtATime'
  BY DEF session_cancel, TypeOK, OneTurnAtATime, Works, Places, TurnInv, LockFits
<1>3. TurnInv'
  BY DEF session_cancel, TypeOK, OneTurnAtATime, TurnInv, RecordFits, ScopeFits,
      WatchFits,
      LockFits
<1> QED
  BY <1>1, <1>2, <1>3

\* Nothing happens.
LEMMA StutterStep ==
  ASSUME Inv, UNCHANGED vars
  PROVE  Inv'
<1> USE Distinct DEF Inv, Terminal
<1>1. TypeOK'
  BY DEF vars, TypeOK, Statuses, Places
<1>2. OneTurnAtATime'
  BY DEF vars, TypeOK, OneTurnAtATime, Works, Places, TurnInv, LockFits
<1>3. TurnInv'
  BY DEF vars, TypeOK, OneTurnAtATime, TurnInv, RecordFits, ScopeFits, WatchFits,
      LockFits
<1> QED
  BY <1>1, <1>2, <1>3

------------------------------------------------------------------------------
(* The theorems *)

LEMMA InvInit == Init => Inv
  BY Distinct
  DEF Init, Inv, TypeOK, Statuses, Places, Terminal, OneTurnAtATime, Works, TurnInv,
      RecordFits, ScopeFits, WatchFits, LockFits

LEMMA InvNext == Inv /\ [Next]_vars => Inv'
  BY startStep, cancelStep, acquire_turnStep, SetRunningStep, RegisterScopeStep,
     EnterScopeStep, ToolDispatchedStep, ToolReturnedStep, TurnCompletedStep, TurnInterruptedStep,
     RecordOutcomeStep, RaiseStep, CancelledStep, WatchReturnsStep, HeartbeatExpiresStep,
     WatchCancelsStep, DrainedStep, UnwoundStep, RecordFailureStep, CleanupStep,
     FinishInterruptedStep, AuditRaisesStep, SendStartsStep, EnqueueStep, SendRefusedStep,
     SendRanStep,
     SendDrainsStep, session_cancelStep, StutterStep
  DEF Next, TaskStep, LoopEnds, WatchStep, SendStep

THEOREM InvAlways == Spec => []Inv
  BY InvInit, InvNext, PTL DEF Spec

\* The records, scopes, watches, the lock and the queue of a session are well formed.
THEOREM TypeCorrect == Spec => []TypeOK
  BY InvAlways, PTL DEF Inv

\* acquire_turn and release_turn: one turn at a time works for a session.
THEOREM OneTurnAtATimeAlways == Spec => []OneTurnAtATime
  BY InvAlways, PTL DEF Inv

\* The finally branch of _run_turn: a turn that is over has an outcome, and holds
\* neither the lock, nor the active place, nor a scope, nor a watch.
THEOREM EndsCleanAlways == Spec => []EndsClean
<1>1. Inv => EndsClean
  BY DEF Inv, TurnInv, RecordFits, ScopeFits, WatchFits, LockFits, EndsClean
<1> QED
  BY <1>1, InvAlways, PTL

\* The replay in _run_turn: a turn cancelled before its loop began never enters it.
THEOREM StoppedBeforeStartAlways == Spec => StoppedBeforeStart
<1> DEFINE Enters(t) == at[t] # "driving" /\ at'[t] = "driving"
<1>1. ASSUME Inv, [Next]_vars
      PROVE  [\A t \in Turns : Enters(t) => t \notin asked]_vars
  <2> SUFFICES ASSUME Next, NEW t \in Turns, Enters(t)
               PROVE  t \notin asked
    BY <1>1
  <2>1. ASSUME NEW u \in Turns, EnterScope(u)
        PROVE  t \notin asked
    <3>1. u = t /\ scope[t] # "cancelled" /\ at[t] = "entering"
      BY <1>1, <2>1 DEF EnterScope, Goes, Inv, TypeOK
    <3> QED
      BY <1>1, <3>1 DEF Inv, TurnInv, ScopeFits
  <2>2. ASSUME ~\E u \in Turns : EnterScope(u)
        PROVE  FALSE
    <3>1. at \in [Turns -> Places]
      BY <1>1 DEF Inv, TypeOK
    <3> QED
      BY <2>2, <3>1
      DEF Next, TaskStep, LoopEnds, WatchStep, SendStep, start, cancel, acquire_turn,
          SetRunning, RegisterScope, ToolDispatched, ToolReturned, TurnCompleted,
          TurnInterrupted, RecordOutcome, Raise, Cancelled, WatchReturns, HeartbeatExpires,
          WatchCancels, Drained, Unwound, RecordFailure, Cleanup, FinishInterrupted,
          AuditRaises, Leaves, Failing, Goes, Excepts, SendStarts, Enqueue, SendRefused, SendRan, SendDrains, session_cancel
  <2> QED
    BY <2>1, <2>2
<1>2. Inv /\ [Next]_vars => [\A t \in Turns : Enters(t) => t \notin asked]_vars
  BY <1>1
<1> QED
  BY <1>2, InvAlways, PTL DEF Spec, StoppedBeforeStart

\* _finish_completed, _finish_interrupted, _finish_error and cancel: an outcome that
\* was recorded is not replaced.
THEOREM OutcomeIsFinalAlways == Spec => OutcomeIsFinal
<1> DEFINE Kept == \A t \in Turns : status[t] \in Terminal => status'[t] = status[t]
<1>1. ASSUME Inv, [Next]_vars
      PROVE  [Kept]_vars
  <2> SUFFICES ASSUME Next, NEW t \in Turns, status[t] \in Terminal
               PROVE  status'[t] = status[t]
    BY <1>1
  <2>1. status \in [Turns -> Statuses] /\ at[t] \in {"cleanup", "done", "broken"}
    BY <1>1 DEF Inv, TypeOK, TurnInv, RecordFits
  <2> QED
    BY <2>1
    DEF Terminal, Next, TaskStep, LoopEnds, WatchStep, SendStep, start, cancel, acquire_turn,
        SetRunning, RegisterScope, EnterScope, ToolDispatched, ToolReturned, TurnCompleted,
        TurnInterrupted, RecordOutcome, Raise, Cancelled, WatchReturns, HeartbeatExpires,
        WatchCancels, Drained, Unwound, RecordFailure, Cleanup, FinishInterrupted,
        AuditRaises, SetStatus,
        SendStarts, Enqueue, SendRefused, SendRan, SendDrains, session_cancel
<1>2. Inv /\ [Next]_vars => [Kept]_vars
  BY <1>1
<1> QED
  BY <1>2, InvAlways, PTL DEF Spec, OutcomeIsFinal

==============================================================================
