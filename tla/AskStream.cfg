CONSTANTS MaxEvents = 3
          MaxBytes = 3
          Disturbances <- MCDisturbances
SPECIFICATION FairSpec
INVARIANTS OneTerminal ContentInOrder
PROPERTIES NoContentAfterRevoke StreamsPauseForBackup StreamedIsBilled EveryStreamEnds
CHECK_DEADLOCK FALSE
