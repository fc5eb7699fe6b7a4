SPECIFICATION MCSpec
CONSTANTS
  s1 = s1
  s2 = s2
  h1 = h1
  NoNote = NoNote
  NoEvent = NoEvent
  Reminders <- MCReminders
  Kind <- MCKind
  Window <- MCWindow
  Occasions <- MCOccasions
  Copies <- MCCopies
  NoTemplate <- MCNoTemplate
  Timeline <- MCTimeline
  Senders <- MCSenders
  Handlers <- MCHandlers
  Reports = {"delivered", "failed"}
  Tracked = TRUE
  MaxRetries = 1
  MaxCrashes = 1
INVARIANTS RemindedOnce MailedOnlyAfterFailure 
PROPERTIES GoesOut
CHECK_DEADLOCK FALSE
