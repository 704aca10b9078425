SPECIFICATION FairSpec
CONSTANTS
  Requests <- MCRequests
  RequestLane <- MCRequestLane
  Checkpoints <- MCCheckpoints
  CheckpointLane <- MCCheckpointLane
  Windows <- MCWindows
  Pacing = TRUE
INVARIANT TypeOK
INVARIANT ActiveCountsHeld
INVARIANT NoLostWake
INVARIANT NoStaleTimer
INVARIANT IdleYieldsToForeground
PROPERTY OvertakenByOneBatch
PROPERTY CloseReleasesAll
PROPERTY QuietLanesLetWorkRun
