SPECIFICATION Spec
CONSTANTS
  d1 = d1
  c1 = c1
  personal = personal
  health = health
  Drafts = {d1}
  MaxVersion = 2
  Contents = {c1}
  NoContent = NoContent
  MaxReviews = 2
  MaxRestarts = 1
  Labels = {personal}
  Releasable = {personal}
INVARIANT StartupSucceeds
CHECK_DEADLOCK FALSE
