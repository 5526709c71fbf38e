CONSTANTS
  Life = 5
  Warning = 2
  Zone <- MCZone
  MaxTime = 9
  None = None
SPECIFICATION Spec
INVARIANT TypeOK DownIsAnnounced
PROPERTY OnlyRestartImproves
