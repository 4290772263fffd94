SPECIFICATION FairSpec
CONSTANTS
  app = app
  audio = audio
  sched = sched
  GameThreads = {app, audio, sched}
  HostThreads = {rsp}
  NoThread = NoThread
  Priority <- MCPriority
  kBarMaxPreemptPriority = 100
INVARIANTS
  EditsAreWhole
PROPERTIES
  OneYieldPerTick
  AudioNotStarved
  StopReturns
