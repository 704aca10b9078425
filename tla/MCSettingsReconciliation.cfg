SPECIFICATION Spec
CONSTANTS
  Torn = Torn
  None = None
  Keys <- MCKeys
  Forms <- MCForms
  Values <- MCValues
  Submitted <- MCSubmitted
  Normal <- MCNormal
  InitialFile <- MCInitialFile
  Incoming <- MCIncoming
  Attempts = 2
  MaxAnnounced = 2
  MaxSubmissions = 2
  MaxFailures = 1
CHECK_DEADLOCK FALSE
INVARIANT TypeOK
INVARIANT NoSelfConflict
INVARIANT Converged
INVARIANT ReceivedSurvives
INVARIANT SubmissionsKept
PROPERTY SavesRebased
