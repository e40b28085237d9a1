SPECIFICATION FairSpec
CONSTANTS
  d1 = d1
  c1 = c1
  personal = personal
  health = health
  Drafts = {d1}
  MaxVersion = 2
  Contents = {c1}
  NoContent = NoContent
  MaxReviews = 2
  MaxRestarts = 2
  Labels = {personal, health}
  Releasable = {personal}
INVARIANTS
  TypeOK
  AtMostOnce
  SentAsReviewed
  SentDraftIsFrozen
  DiscardsWhatWasSent
  JournalTellsTheTruth
  NotSubmittedIsTrue
  ApprovedIsAccountedFor
  BlockingIsNewest
PROPERTIES
  ImplementsLedger
  JournalIsHistory
  SubmissionSettles
  ApprovalResolves
  JournalIsUsedAsSpecified
CHECK_DEADLOCK FALSE
