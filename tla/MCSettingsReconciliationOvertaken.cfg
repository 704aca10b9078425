SPECIFICATION Spec
CONSTANTS
  Torn = Torn
  None = None
  Keys <- MCKeys
  Forms <- MCForms
  Values <- MCValues
  Submitted <- MCSubmitted
  Normal <- MCNormal
  InitialFile <- MCInitialFile
  Incoming <- MCIncoming
  Attempts = 2
  MaxAnnounced = 2
  MaxSubmissions = 1
  MaxFailures = 0
CHECK_DEADLOCK FALSE
PROPERTY ChecksAreFresh
