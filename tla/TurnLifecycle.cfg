SPECIFICATION SilentSpec
CONSTANTS
  t1 = t1
  t2 = t2
  s1 = s1
  s2 = s2
  Nobody = Nobody
  Turns = {t1, t2}
  Sends = {s1, s2}
  Heartbeats = {t1}
INVARIANTS
  OneTurnAtATime
  EndsClean
PROPERTIES
  StoppedBeforeStart
  OutcomeIsFinal
  EveryTurnEnds
CHECK_DEADLOCK FALSE
