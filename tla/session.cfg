SPECIFICATION FairSpec
CONSTANTS
  Scripts <- HostScripts
  Ahead = 1
  Writers = {0, 1, 2, 3}
  MaxConns = 2
  Deliveries = {1}
  Retries = 1
  Scenes <- AllScenes
INVARIANTS
  TypeOK
  FramesWhole
  StaleOnlyAfterTimeout
  AckedWasPushed
  AnnouncedIsHeard
PROPERTIES
  AnswersEachOnce
  NeverSilent
  CallsReturn
  PumpGoesOn
  Announces
  Starts
  EndsWithSession
