SPECIFICATION FairSpec
CONSTANTS
  t1 = t1
  t2 = t2
  s1 = s1
  s2 = s2
  Nobody = Nobody
  Turns = {t1}
  Sends = {}
  Heartbeats = {t1}
PROPERTY StopTakesEffect
CHECK_DEADLOCK FALSE
